---------------------------- MODULE Spec2Model ----------------------------
(***************************************************************************)
(* Puzzle providers of goosepaper: the crossword generator                 *)
(* (providers/crossword.py) and the word-search generator                  *)
(* (providers/wordsearch.py), modelled as one state machine per            *)
(* get_stories call.  Words are sequences of one-letter strings, grids are *)
(* functions from <<row, col>> (0-based, as in the source) to a letter or  *)
(* to "" (empty).  Python list indexing is modelled with its negative      *)
(* index rule: an index i of a list of length n is valid iff               *)
(* -n <= i < n, and a negative valid index denotes element i + n.          *)
(***************************************************************************)
EXTENDS Integers, Sequences, FiniteSets, TLC

VARIABLES
  provider,      \* which provider's get_stories is running
  PUZZLE_SETS,   \* crossword.PUZZLE_SETS   (module global, catalogue)
  WORD_LISTS,    \* wordsearch.WORD_LISTS   (module global, catalogue)
  DIRECTIONS,    \* wordsearch.DIRECTIONS   (module global, shuffled in place)
  grid_size,     \* self.grid_size
  num_words,     \* self.num_words
  seed,          \* argument of random.seed before each generation
  rng,           \* state of the process-wide generator of module random
  run,           \* 1: first generation, 2: generation repeated after re-seeding
  prev,          \* what the first generation returned (or that it raised)
  pc,            \* position in get_stories/_generate
  theme,         \* local theme of _generate
  words,         \* local word_clues (crossword) / words (word search)
  wordIdx,       \* index into words of the word the for loop is at
  grid,          \* local grid of _generate
  placed,        \* local placed of _generate
  placements,    \* word search: where _place_word wrote each placed word
  dirIdx,        \* _place_word: position of "for dr, dc in DIRECTIONS"
  tries,         \* _place_word: iterations done of "for _ in range(50)"
  attempts,      \* _place_word: local attempts
  fills,         \* word search: how many times the noise fill ran in this call
  number_map,    \* _to_html: number_map
  across_clues,  \* _to_html: across_clues, as <<number, clue, length>>
  down_clues,    \* _to_html: down_clues
  seen,          \* _place_word: the (dr, dc) the for loop has fetched so far;
                 \* the last one is the value of the loop variables
  other,         \* the locals of a second call of _generate that is not
                 \* running at the moment (id 0: there is no second call)
  story_providers, \* Goosepaper: self.story_providers, each provider with
                 \* the list its get_stories returns
  stories,       \* Goosepaper.get_stories: the flag and the list returned
  html           \* Goosepaper.to_html: the anchors of the page returned

vars == <<provider, PUZZLE_SETS, WORD_LISTS, DIRECTIONS, grid_size, num_words,
          seed, rng, run, prev, pc, theme, words, wordIdx, grid, placed,
          placements, dirIdx, tries, attempts, fills, number_map,
          across_clues, down_clues, seen, other, story_providers, stories,
          html>>

-----------------------------------------------------------------------------
(* Bounds of the model. *)

\* seeds 0..MaxSeed are passed to random.seed
MaxSeed ==
  39

\* num_words ranges over 1..MaxNumWords
MaxNumWords ==
  4

-----------------------------------------------------------------------------
(* Catalogues. *)

SourcePuzzleSets ==
  <<
    [theme |-> "Geography", words |-> <<
        <<<<"R","I","V","E","R">>, "A flowing body of water">>,
        <<<<"M","O","U","N","T","A","I","N">>, "A large natural elevation">>,
        <<<<"I","S","L","A","N","D">>, "Land surrounded by water">>,
        <<<<"D","E","S","E","R","T">>, "An arid, sandy region">>,
        <<<<"C","A","N","Y","O","N">>, "A deep gorge in the earth">>,
        <<<<"G","L","A","C","I","E","R">>, "A slow-moving mass of ice">>,
        <<<<"P","L","A","T","E","A","U">>, "A flat elevated landform">>,
        <<<<"V","O","L","C","A","N","O">>, "An opening that erupts lava">>,
        <<<<"V","A","L","L","E","Y">>, "Low area between hills">>,
        <<<<"O","C","E","A","N">>, "A vast body of salt water">>,
        <<<<"D","E","L","T","A">>, "Sediment deposit at river mouth">>,
        <<<<"T","U","N","D","R","A">>, "Cold treeless biome">> >>],
    [theme |-> "Science", words |-> <<
        <<<<"A","T","O","M">>, "Smallest unit of an element">>,
        <<<<"C","E","L","L">>, "Basic unit of life">>,
        <<<<"G","R","A","V","I","T","Y">>, "Force that pulls objects together">>,
        <<<<"P","H","O","T","O","N">>, "A particle of light">>,
        <<<<"E","N","Z","Y","M","E">>, "A biological catalyst">>,
        <<<<"Q","U","A","R","K">>, "Subatomic particle in protons">>,
        <<<<"P","L","A","S","M","A">>, "Fourth state of matter">>,
        <<<<"N","E","U","R","O","N">>, "A nerve cell">>,
        <<<<"P","R","I","S","M">>, "Splits white light into colors">>,
        <<<<"O","R","B","I","T">>, "Path around a celestial body">>,
        <<<<"G","E","N","E">>, "Unit of heredity">>,
        <<<<"L","E","N","S">>, "Focuses light rays">> >>],
    [theme |-> "Literature", words |-> <<
        <<<<"N","O","V","E","L">>, "A long fictional narrative">>,
        <<<<"P","R","O","S","E">>, "Ordinary written language">>,
        <<<<"F","A","B","L","E">>, "A short moral story">>,
        <<<<"V","E","R","S","E">>, "A line of poetry">>,
        <<<<"G","E","N","R","E">>, "A category of literature">>,
        <<<<"P","L","O","T">>, "Sequence of story events">>,
        <<<<"T","H","E","M","E">>, "Central idea of a work">>,
        <<<<"S","T","A","N","Z","A">>, "A grouped set of poem lines">>,
        <<<<"I","R","O","N","Y">>, "Opposite of what is expected">>,
        <<<<"S","A","T","I","R","E">>, "Using humor to criticize">>,
        <<<<"E","P","I","C">>, "A long heroic narrative poem">>,
        <<<<"M","Y","T","H">>, "A traditional symbolic story">> >>],
    [theme |-> "Nature", words |-> <<
        <<<<"F","O","R","E","S","T">>, "A dense area of trees">>,
        <<<<"C","O","R","A","L">>, "Marine organism forming reefs">>,
        <<<<"P","O","L","L","E","N">>, "Powder from flowering plants">>,
        <<<<"F","A","L","C","O","N">>, "A fast bird of prey">>,
        <<<<"M","A","P","L","E">>, "Tree with lobed leaves">>,
        <<<<"L","I","C","H","E","N">>, "Fungus-algae symbiosis">>,
        <<<<"M","O","S","S">>, "Small green flowerless plant">>,
        <<<<"H","E","R","O","N">>, "A long-legged wading bird">>,
        <<<<"F","E","R","N">>, "A feathery leafed plant">>,
        <<<<"B","I","R","C","H">>, "A white-barked tree">>,
        <<<<"A","C","O","R","N">>, "Seed of an oak tree">>,
        <<<<"B","R","O","O","K">>, "A small stream">> >>]
  >>

SourceWordLists ==
  <<
    [theme |-> "animals", lists |-> << <<
        <<"E","L","E","P","H","A","N","T">>,
        <<"G","I","R","A","F","F","E">>,
        <<"P","E","N","G","U","I","N">>,
        <<"D","O","L","P","H","I","N">>,
        <<"T","I","G","E","R">>,
        <<"O","C","T","O","P","U","S">>,
        <<"F","A","L","C","O","N">>,
        <<"T","U","R","T","L","E">>,
        <<"J","A","G","U","A","R">>,
        <<"C","O","B","R","A">> >> >>],
    [theme |-> "space", lists |-> << <<
        <<"G","A","L","A","X","Y">>,
        <<"N","E","B","U","L","A">>,
        <<"P","L","A","N","E","T">>,
        <<"C","O","M","E","T">>,
        <<"O","R","B","I","T">>,
        <<"Q","U","A","S","A","R">>,
        <<"P","U","L","S","A","R">>,
        <<"M","E","T","E","O","R">>,
        <<"S","A","T","U","R","N">>,
        <<"V","E","N","U","S">> >> >>],
    [theme |-> "food", lists |-> << <<
        <<"B","A","N","A","N","A">>,
        <<"M","A","N","G","O">>,
        <<"P","I","Z","Z","A">>,
        <<"S","U","S","H","I">>,
        <<"B","R","E","A","D">>,
        <<"C","H","E","E","S","E">>,
        <<"S","A","L","M","O","N">>,
        <<"G","A","R","L","I","C">>,
        <<"P","E","P","P","E","R">>,
        <<"W","A","F","F","L","E">> >> >>],
    [theme |-> "weather", lists |-> << <<
        <<"T","H","U","N","D","E","R">>,
        <<"B","R","E","E","Z","E">>,
        <<"S","T","O","R","M">>,
        <<"F","R","O","S","T">>,
        <<"C","L","O","U","D">>,
        <<"T","O","R","N","A","D","O">>,
        <<"H","A","I","L">>,
        <<"F","O","G","G","Y">>,
        <<"S","L","E","E","T">>,
        <<"D","R","I","Z","Z","L","E">> >> >>],
    [theme |-> "ocean", lists |-> << <<
        <<"C","O","R","A","L">>,
        <<"W","H","A","L","E">>,
        <<"S","H","A","R","K">>,
        <<"T","I","D","E">>,
        <<"R","E","E","F">>,
        <<"A","N","C","H","O","R">>,
        <<"T","R","E","N","C","H">>,
        <<"K","E","L","P">>,
        <<"H","A","R","B","O","R">>,
        <<"L","A","G","O","O","N">> >> >>],
    [theme |-> "music", lists |-> << <<
        <<"G","U","I","T","A","R">>,
        <<"P","I","A","N","O">>,
        <<"D","R","U","M","S">>,
        <<"V","I","O","L","I","N">>,
        <<"F","L","U","T","E">>,
        <<"T","E","M","P","O">>,
        <<"C","H","O","R","D">>,
        <<"M","E","L","O","D","Y">>,
        <<"R","H","Y","T","H","M">>,
        <<"B","A","S","S">> >> >>]
  >>

\* crossword.py: default catalogue; the scenario of two words; one 8-letter
\* word; a theme with no words.
ScenarioPuzzleSets ==
  << [theme |-> "Geography", words |-> <<
        <<<<"R","I","V","E","R">>, "A flowing body of water">>,
        <<<<"M","O","U","N","T","A","I","N">>, "A large natural elevation">> >>] >>

\* a catalogue of three distinct words, one of them the end of another
NestedPuzzleSets ==
  << [theme |-> "Words", words |-> <<
        <<<<"M","O","U","N","T","A","I","N">>, "A large natural elevation">>,
        <<<<"T","R","E","A","S","O","N">>, "Betrayal of one's country">>,
        <<<<"R","E","A","S","O","N">>, "A cause or explanation">> >>] >>

SingleWordPuzzleSets ==
  << [theme |-> "Geography", words |-> <<
        <<<<"M","O","U","N","T","A","I","N">>, "A large natural elevation">> >>] >>

EmptyPuzzleSets ==
  << [theme |-> "Empty", words |-> << >>] >>

SingleWordLists ==
  << [theme |-> "animals", lists |-> << << <<"E","L","E","P","H","A","N","T">> >> >>] >>

EmptyWordLists ==
  << [theme |-> "empty", lists |-> << << >> >>] >>

\* (catalogue, grid_size) pairs a generation is run with
CwConfigs ==
  { <<SourcePuzzleSets, 15>>, <<SourcePuzzleSets, 8>>,
    <<ScenarioPuzzleSets, 15>>, <<SingleWordPuzzleSets, 5>>,
    <<EmptyPuzzleSets, 5>>, <<NestedPuzzleSets, 8>> }

WsConfigs ==
  { <<SourceWordLists, 15>>, <<SourceWordLists, 6>>,
    <<SingleWordLists, 5>>, <<EmptyWordLists, 5>> }

\* wordsearch.py: DIRECTIONS as the module defines it
SourceDirections ==
  << <<0, 1>>, <<1, 0>>, <<0, -1>>, <<-1, 0>>,
     <<1, 1>>, <<-1, -1>>, <<1, -1>>, <<-1, 1>> >>

\* the inner loop of _place_word with one iteration too many
TriesPerDirectionOneMore ==
  25 * 2 + 1

\* wordsearch.py: range(50)
TriesPerDirection ==
  50

\* chr(65) .. chr(90)
Alphabet ==
  << "A","B","C","D","E","F","G","H","I","J","K","L","M",
     "N","O","P","Q","R","S","T","U","V","W","X","Y","Z" >>

Letters ==
  { Alphabet[k] : k \in 1..26 }

-----------------------------------------------------------------------------
(* The process-wide generator of module random.  The generator is          *)
(* deterministic: random.seed(s) fixes every later draw.  Each call of      *)
(* _randbelow advances the state once.                                      *)

RngNext(s) ==
  (75 * s + 74) % 65537

\* random._randbelow(n) called in state s; the state afterwards is RngNext(s)
RandBelow(s, n) ==
  RngNext(s) % n

\* the swap without the temporary: x[a] = x[b]; x[b] = x[a]
SwapOverwrite(x, a, b) ==
  [x EXCEPT ![a] = x[b]]

Swap(x, a, b) ==
  [x EXCEPT ![a] = x[b], ![b] = x[a]]

\* random.shuffle(x): for i in reversed(range(1, len(x))): j = randbelow(i+1);
\* x[i], x[j] = x[j], x[i].  i is the 0-based index of the source.
RECURSIVE ShuffleFrom(_, _, _)
ShuffleFrom(x, s, i) ==
  IF i < 1 THEN [list |-> x, rng |-> s]
  ELSE ShuffleFrom(Swap(x, i + 1, RandBelow(s, i + 1) + 1), RngNext(s), i - 1)

Shuffle(x, s) ==
  ShuffleFrom(x, s, Len(x) - 1)

\* x[:n] without the cut
TakeAll(x, n) ==
  x

\* x[:n] for n >= 0
Take(x, n) ==
  SubSeq(x, 1, IF n < Len(x) THEN n ELSE Len(x))

-----------------------------------------------------------------------------
(* Python list indexing. *)

IndexOK(i, n) ==
  -n <= i /\ i < n

PyIdx(i, n) ==
  IF i < 0 THEN i + n ELSE i

InBounds(r, c, size) ==
  0 <= r /\ r < size /\ 0 <= c /\ c < size

Cells(size) ==
  (0..(size - 1)) \X (0..(size - 1))

\* [["" for _ in range(size)] for _ in range(size)]
EmptyGrid(size) ==
  [p \in Cells(size) |-> ""]

-----------------------------------------------------------------------------
(* crossword.py *)

\* (dr, dc) of a direction label
Delta(direction) ==
  IF direction = "across" THEN <<0, 1>> ELSE <<1, 0>>

\* _try_place, the loop over the letters: "ok" when the loop ends, "False" on
\* a conflicting letter, "IndexError" when grid[nr][nc] is out of range.  The
\* loop over the perpendicular neighbours of an empty cell only executes
\* pass, and it indexes the grid only inside its own bounds test.
RECURSIVE TryCells(_, _, _, _, _, _, _, _)
TryCells(g, size, word, r, c, dr, dc, i) ==
  IF i > Len(word) THEN "ok"
  ELSE LET nr == r + dr * (i - 1)
           nc == c + dc * (i - 1)
       IN  IF ~(IndexOK(nr, size) /\ IndexOK(nc, size)) THEN "IndexError"
           ELSE LET existing == g[<<PyIdx(nr, size), PyIdx(nc, size)>>]
                IN  IF existing # "" /\ existing # word[i] THEN "False"
                    ELSE TryCells(g, size, word, r, c, dr, dc, i + 1)

\* the cell before the start / after the end is on the grid and not empty
Blocked(g, size, r, c) ==
  InBounds(r, c, size) /\ g[<<r, c>>] # ""

\* _try_place without the comparison of the letters (lines 101-105 left out)
TryPlaceNoLetterCheck(g, size, word, r, c, dr, dc) ==
  LET end_r == r + dr * (Len(word) - 1)
      end_c == c + dc * (Len(word) - 1)
  IN  IF ~InBounds(end_r, end_c, size) THEN "False"
      ELSE IF Blocked(g, size, r - dr, c - dc) THEN "False"
      ELSE IF Blocked(g, size, r + dr * Len(word), c + dc * Len(word))
           THEN "False"
      ELSE "True"

\* _try_place without the test of the cells before the start and after the
\* end (lines 116-122 left out)
TryPlaceOpenEnded(g, size, word, r, c, dr, dc) ==
  LET end_r == r + dr * (Len(word) - 1)
      end_c == c + dc * (Len(word) - 1)
  IN  IF ~InBounds(end_r, end_c, size) THEN "False"
      ELSE LET t == TryCells(g, size, word, r, c, dr, dc, 1)
           IN  IF t # "ok" THEN t ELSE "True"

\* _try_place: "True", "False" or "IndexError"
TryPlace(g, size, word, r, c, dr, dc) ==
  LET end_r == r + dr * (Len(word) - 1)
      end_c == c + dc * (Len(word) - 1)
  IN  IF ~InBounds(end_r, end_c, size) THEN "False"
      ELSE LET t == TryCells(g, size, word, r, c, dr, dc, 1)
           IN  IF t # "ok" THEN t
               ELSE IF Blocked(g, size, r - dr, c - dc) THEN "False"
               ELSE IF Blocked(g, size, r + dr * Len(word), c + dc * Len(word))
                    THEN "False"
               ELSE "True"

\* _place_word of the crossword: writes letter after letter; an index out of
\* range raises IndexError after the letters before it have been written
RECURSIVE PlaceLetters(_, _, _, _, _, _, _, _)
PlaceLetters(g, size, word, r, c, dr, dc, i) ==
  IF i > Len(word) THEN [grid |-> g, raised |-> FALSE]
  ELSE LET nr == r + dr * (i - 1)
           nc == c + dc * (i - 1)
       IN  IF ~(IndexOK(nr, size) /\ IndexOK(nc, size))
           THEN [grid |-> g, raised |-> TRUE]
           ELSE PlaceLetters(
                  [g EXCEPT ![<<PyIdx(nr, size), PyIdx(nc, size)>>] = word[i]],
                  size, word, r, c, dr, dc, i + 1)

CwPlaceWord(g, size, word, r, c, dr, dc) ==
  PlaceLetters(g, size, word, r, c, dr, dc, 1)

\* word_clues.sort(key=lambda x: len(x[0]), reverse=True): stable, so an
\* element goes behind every element that is at least as long
RECURSIVE InsertByLen(_, _, _)
InsertByLen(sorted, e, k) ==
  IF k > Len(sorted) THEN Append(sorted, e)
  ELSE IF Len(sorted[k][1]) < Len(e[1])
       THEN SubSeq(sorted, 1, k - 1) \o <<e>> \o SubSeq(sorted, k, Len(sorted))
       ELSE InsertByLen(sorted, e, k + 1)

RECURSIVE SortByLenFrom(_, _, _)
SortByLenFrom(x, sorted, k) ==
  IF k > Len(x) THEN sorted
  ELSE SortByLenFrom(x, InsertByLen(sorted, x[k], 1), k + 1)

\* word_clues left in shuffled order (line 146 left out)
SortByLenUnsorted(x) ==
  x

\* the sort without reverse=True: shortest word first
SortByLenAscending(x) ==
  LET d == SortByLenFrom(x, << >>, 1)
  IN  [k \in 1..Len(d) |-> d[Len(d) + 1 - k]]

SortByLenDesc(x) ==
  SortByLenFrom(x, << >>, 1)

\* _generate, lines 140-146: the theme and the selected, sorted word_clues
CwSelection(sets, nw, s) ==
  LET puzzle_set == sets[RandBelow(s, Len(sets)) + 1]
      sh == Shuffle(puzzle_set.words, RngNext(s))
  IN  [theme |-> puzzle_set.theme,
       word_clues |-> SortByLenDesc(Take(sh.list, nw)),
       rng |-> sh.rng]

\* _generate, lines 170-177: the loop over the letters of word (j) for the
\* letter i of the placed word pi; the first candidate _try_place accepts wins
RECURSIVE CrossingAtLetter(_, _, _, _, _, _, _)
CrossingAtLetter(g, size, pl, word, pi, i, j) ==
  IF j > Len(word) THEN [res |-> "none"]
  ELSE IF pl[pi].word[i] # word[j]
       THEN CrossingAtLetter(g, size, pl, word, pi, i, j + 1)
  ELSE LET pd == pl[pi].direction
           pdr == Delta(pd)[1]
           pdc == Delta(pd)[2]
           new_dir == IF pd = "across" THEN "down" ELSE "across"
           new_dr == Delta(new_dir)[1]
           new_dc == Delta(new_dir)[2]
           pr_i == pl[pi].row + pdr * (i - 1)
           pc_i == pl[pi].col + pdc * (i - 1)
           wr == pr_i - new_dr * (j - 1)
           wc == pc_i - new_dc * (j - 1)
           t == TryPlace(g, size, word, wr, wc, new_dr, new_dc)
       IN  IF t = "True"
           THEN [res |-> "found", row |-> wr, col |-> wc, direction |-> new_dir]
           ELSE IF t = "IndexError" THEN [res |-> "raise"]
           ELSE CrossingAtLetter(g, size, pl, word, pi, i, j + 1)

\* _generate, lines 167-179: the loop over the letters of the placed word pi
RECURSIVE CrossingWithWord(_, _, _, _, _, _)
CrossingWithWord(g, size, pl, word, pi, i) ==
  IF i > Len(pl[pi].word) THEN [res |-> "none"]
  ELSE LET best == CrossingAtLetter(g, size, pl, word, pi, i, 1)
       IN  IF best.res # "none" THEN best
           ELSE CrossingWithWord(g, size, pl, word, pi, i + 1)

\* the loop over the placed words without the break of lines 180-181: the
\* last placed word that yields a crossing wins
RECURSIVE CrossingFromLast(_, _, _, _, _)
CrossingFromLast(g, size, pl, word, pi) ==
  IF pi > Len(pl) THEN [res |-> "none"]
  ELSE LET later == CrossingFromLast(g, size, pl, word, pi + 1)
       IN  IF later.res # "none" THEN later
           ELSE CrossingWithWord(g, size, pl, word, pi, 1)

\* _generate, lines 160-181: the loop over the placed words, in placement
\* order
RECURSIVE CrossingFrom(_, _, _, _, _)
CrossingFrom(g, size, pl, word, pi) ==
  IF pi > Len(pl) THEN [res |-> "none"]
  ELSE LET best == CrossingWithWord(g, size, pl, word, pi, 1)
       IN  IF best.res # "none" THEN best
           ELSE CrossingFrom(g, size, pl, word, pi + 1)

\* the scan with a fallback: a word without a crossing goes to the top-left
\* corner when the cells there are free
FindCrossingOrCorner(g, size, pl, word) ==
  LET best == CrossingFrom(g, size, pl, word, 1)
  IN  IF best.res = "none" /\ TryPlace(g, size, word, 0, 0, 0, 1) = "True"
      THEN [res |-> "found", row |-> 0, col |-> 0, direction |-> "across"]
      ELSE best

FindCrossing(g, size, pl, word) ==
  CrossingFrom(g, size, pl, word, 1)

\* _to_html: sorted(placed, key=lambda x: (x[2], x[3])), stable
KeyLess(a, b) ==
  a.row < b.row \/ (a.row = b.row /\ a.col < b.col)

RECURSIVE InsertByPos(_, _, _)
InsertByPos(sorted, e, k) ==
  IF k > Len(sorted) THEN Append(sorted, e)
  ELSE IF KeyLess(e, sorted[k])
       THEN SubSeq(sorted, 1, k - 1) \o <<e>> \o SubSeq(sorted, k, Len(sorted))
       ELSE InsertByPos(sorted, e, k + 1)

RECURSIVE SortByPosFrom(_, _, _)
SortByPosFrom(x, sorted, k) ==
  IF k > Len(x) THEN sorted
  ELSE SortByPosFrom(x, InsertByPos(sorted, x[k], 1), k + 1)

\* placed left in placement order (sorted(...) of line 202 left out)
PlacedInPlacementOrder(pl) ==
  pl

PlacedSorted(pl) ==
  SortByPosFrom(pl, << >>, 1)

\* _to_html: number_map, a function from the numbered cells to their numbers
RECURSIVE NumberFrom(_, _, _, _)
NumberFrom(ps, m, num, k) ==
  IF k > Len(ps) THEN m
  ELSE LET cell == <<ps[k].row, ps[k].col>>
       IN  IF cell \in DOMAIN m THEN NumberFrom(ps, m, num, k + 1)
           ELSE NumberFrom(ps, [x \in DOMAIN m \cup {cell} |->
                                  IF x = cell THEN num ELSE m[x]],
                           num + 1, k + 1)

NumberMap(pl) ==
  NumberFrom(PlacedSorted(pl), [x \in {} |-> 0], 1, 1)

\* _to_html, lines 208-213: the cells the rendering takes as holding a letter
Used(pl) ==
  UNION {{<<pl[n].row + Delta(pl[n].direction)[1] * i,
            pl[n].col + Delta(pl[n].direction)[2] * i>> :
            i \in 0..(Len(pl[n].word) - 1)} : n \in 1..Len(pl)}

\* the clue lists built with insert(0, entry) instead of append
RECURSIVE CluesFromPrepended(_, _, _, _)
CluesFromPrepended(ps, m, across, k) ==
  IF k > Len(ps) THEN << >>
  ELSE LET rest == CluesFromPrepended(ps, m, across, k + 1)
           entry == <<m[<<ps[k].row, ps[k].col>>], ps[k].clue, Len(ps[k].word)>>
       IN  IF (ps[k].direction = "across") = across THEN rest \o <<entry>>
           ELSE rest

\* the clue entries numbered by their position in placed_sorted instead of
\* number_map[(r, c)] (line 243)
RECURSIVE CluesFromByIndex(_, _, _, _)
CluesFromByIndex(ps, m, across, k) ==
  IF k > Len(ps) THEN << >>
  ELSE LET rest == CluesFromByIndex(ps, m, across, k + 1)
           entry == <<k, ps[k].clue, Len(ps[k].word)>>
       IN  IF (ps[k].direction = "across") = across THEN <<entry>> \o rest
           ELSE rest

\* _to_html: the clue entries of one direction, in placed_sorted order
RECURSIVE CluesFrom(_, _, _, _)
CluesFrom(ps, m, across, k) ==
  IF k > Len(ps) THEN << >>
  ELSE LET rest == CluesFrom(ps, m, across, k + 1)
           entry == <<m[<<ps[k].row, ps[k].col>>], ps[k].clue, Len(ps[k].word)>>
       IN  IF (ps[k].direction = "across") = across THEN <<entry>> \o rest
           ELSE rest

-----------------------------------------------------------------------------
(* wordsearch.py *)

\* _place_word without the conflict check (lines 69-74 left out)
WsFitsNoConflictCheck(g, size, word, r, c, dr, dc) ==
  InBounds(r + dr * (Len(word) - 1), c + dc * (Len(word) - 1), size)

\* the conflict loop of _place_word stopping one letter early
WsFitsButLastLetter(g, size, word, r, c, dr, dc) ==
  LET end_r == r + dr * (Len(word) - 1)
      end_c == c + dc * (Len(word) - 1)
  IN  /\ InBounds(end_r, end_c, size)
      /\ \A i \in 1..(Len(word) - 1) :
           LET cur == g[<<r + dr * (i - 1), c + dc * (i - 1)>>]
           IN  cur = "" \/ cur = word[i]

\* the fit test with "end_r < size and end_c < size" only: an end point
\* below 0 passes and the cells are reached through negative indices
WsFitsUpperBoundOnly(g, size, word, r, c, dr, dc) ==
  LET end_r == r + dr * (Len(word) - 1)
      end_c == c + dc * (Len(word) - 1)
  IN  /\ end_r < size /\ end_c < size
      /\ \A i \in 1..Len(word) :
           LET nr == r + dr * (i - 1)
               nc == c + dc * (i - 1)
           IN  /\ IndexOK(nr, size) /\ IndexOK(nc, size)
               /\ g[<<PyIdx(nr, size), PyIdx(nc, size)>>] \in {"", word[i]}

\* _place_word, lines 64-74: the candidate fits and conflicts with no letter
WsFits(g, size, word, r, c, dr, dc) ==
  LET end_r == r + dr * (Len(word) - 1)
      end_c == c + dc * (Len(word) - 1)
  IN  /\ InBounds(end_r, end_c, size)
      /\ \A i \in 1..Len(word) :
           LET cur == g[<<r + dr * (i - 1), c + dc * (i - 1)>>]
           IN  cur = "" \/ cur = word[i]

\* _place_word, lines 76-78
WsWrite(g, word, r, c, dr, dc) ==
  [p \in DOMAIN g |->
     IF \E i \in 1..Len(word) : p = <<r + dr * (i - 1), c + dc * (i - 1)>>
     THEN word[CHOOSE i \in 1..Len(word) :
                 p = <<r + dr * (i - 1), c + dc * (i - 1)>>]
     ELSE g[p]]

\* _generate, lines 96-98: the cells of row r from column c on; every empty
\* cell gets chr(random.randint(65, 90))
RECURSIVE FillRow(_, _, _, _, _)
FillRow(g, size, s, r, c) ==
  IF c >= size THEN [grid |-> g, rng |-> s]
  ELSE IF g[<<r, c>>] = ""
       THEN FillRow([g EXCEPT ![<<r, c>>] = Alphabet[RandBelow(s, 26) + 1]],
                    size, RngNext(s), r, c + 1)
       ELSE FillRow(g, size, s, r, c + 1)

\* _generate, lines 95-98: row after row
RECURSIVE FillRows(_, _, _, _)
FillRows(g, size, s, r) ==
  IF r >= size THEN [grid |-> g, rng |-> s]
  ELSE LET f == FillRow(g, size, s, r, 0)
       IN  FillRows(f.grid, size, f.rng, r + 1)

\* the fill without the test of line 97: every cell gets a random letter
NoiseFillEveryCell(g, size, s) ==
  [grid |-> [p \in DOMAIN g |->
               Alphabet[RandBelow(s + p[1] * size + p[2], 26) + 1]],
   rng |-> RngNext(s)]

\* the fill with range(1, self.grid_size) for the rows
NoiseFillSkipsFirstRow(g, size, s) ==
  FillRows(g, size, s, 1)

NoiseFill(g, size, s) ==
  FillRows(g, size, s, 0)

\* _generate, lines 83-86
WsSelection(lists, nw, s) ==
  LET entry == lists[RandBelow(s, Len(lists)) + 1]
      s1 == RngNext(s)
      tuple == entry.lists[RandBelow(s1, Len(entry.lists)) + 1]
      sh == Shuffle(tuple, RngNext(s1))
  IN  [theme |-> entry.theme, words |-> Take(sh.list, nw), rng |-> sh.rng]

-----------------------------------------------------------------------------
(* The state machine. *)

NoResult ==
  [process |-> "none", raised |-> FALSE, grid |-> << >>, placed |-> << >>]

NoNumbers ==
  [x \in {} |-> 0]

\* no second call
NoCall ==
  [id |-> 0]

\* get_stories of the Goosepaper has not been called
NoStories ==
  [called |-> FALSE]

\* to_html of the Goosepaper has not been called
NoHtml ==
  [called |-> FALSE]

Init ==
  /\ provider \in {"crossword", "wordsearch"}
  /\ \E cfg \in (IF provider = "crossword" THEN CwConfigs ELSE WsConfigs) :
       /\ PUZZLE_SETS = (IF provider = "crossword" THEN cfg[1] ELSE SourcePuzzleSets)
       /\ WORD_LISTS = (IF provider = "wordsearch" THEN cfg[1] ELSE SourceWordLists)
       /\ grid_size = cfg[2]
  /\ DIRECTIONS = SourceDirections
  /\ num_words \in 1..MaxNumWords
  /\ seed \in 0..MaxSeed
  /\ rng = seed
  /\ run = 1
  /\ prev = NoResult
  /\ pc = "start"
  /\ theme = ""
  /\ words = << >>
  /\ wordIdx = 0
  /\ grid = EmptyGrid(grid_size)
  /\ placed = << >>
  /\ placements = << >>
  /\ dirIdx = 0
  /\ tries = 0
  /\ attempts = 0
  /\ fills = 0
  /\ number_map = NoNumbers
  /\ across_clues = << >>
  /\ down_clues = << >>
  /\ seen = << >>
  /\ other = NoCall
  /\ story_providers = << >>
  /\ stories = NoStories
  /\ html = NoHtml

\* crossword._generate, lines 140-149
CwGenerate ==
  /\ pc = "start"
  /\ provider = "crossword"
  /\ LET sel == CwSelection(PUZZLE_SETS, num_words, rng)
     IN  /\ theme' = sel.theme
         /\ words' = sel.word_clues
         /\ rng' = sel.rng
  /\ grid' = EmptyGrid(grid_size)
  /\ placed' = << >>
  /\ wordIdx' = 1
  /\ pc' = "first"
  /\ UNCHANGED <<story_providers, stories, html, other, seen, provider, PUZZLE_SETS, WORD_LISTS, DIRECTIONS, grid_size,
                 num_words, seed, run, prev, placements, dirIdx, tries,
                 attempts, fills, number_map, across_clues, down_clues>>

\* crossword._generate, lines 151-156: word_clues[0] raises IndexError on an
\* empty list; the first word is written without _try_place
CwPlaceFirst ==
  /\ pc = "first"
  /\ IF Len(words) = 0
     THEN /\ pc' = "raised"
          /\ UNCHANGED <<grid, placed, wordIdx>>
     ELSE LET first_word == words[1][1]
              first_clue == words[1][2]
              start_c == (grid_size - Len(first_word)) \div 2
              start_r == grid_size \div 2
              w == CwPlaceWord(grid, grid_size, first_word, start_r, start_c, 0, 1)
          IN  /\ grid' = w.grid
              /\ IF w.raised
                 THEN /\ pc' = "raised"
                      /\ UNCHANGED <<placed, wordIdx>>
                 ELSE /\ placed' = Append(placed,
                            [word |-> first_word, clue |-> first_clue,
                             row |-> start_r, col |-> start_c,
                             direction |-> "across"])
                      /\ wordIdx' = 2
                      /\ pc' = "words"
  /\ UNCHANGED <<story_providers, stories, html, other, seen, provider, PUZZLE_SETS, WORD_LISTS, DIRECTIONS, grid_size,
                 num_words, seed, rng, run, prev, theme, words, placements,
                 dirIdx, tries, attempts, fills, number_map, across_clues,
                 down_clues>>

\* crossword._generate, lines 159-186: one iteration of the loop over
\* word_clues[1:]
CwPlaceNext ==
  /\ pc = "words"
  /\ provider = "crossword"
  /\ wordIdx <= Len(words)
  /\ LET word == words[wordIdx][1]
         clue == words[wordIdx][2]
         best == FindCrossing(grid, grid_size, placed, word)
     IN  CASE best.res = "raise" ->
                /\ pc' = "raised"
                /\ UNCHANGED <<grid, placed, wordIdx>>
           [] best.res = "none" ->
                /\ wordIdx' = wordIdx + 1
                /\ UNCHANGED <<grid, placed, pc>>
           [] best.res = "found" ->
                LET d == Delta(best.direction)
                    w == CwPlaceWord(grid, grid_size, word, best.row, best.col,
                                     d[1], d[2])
                IN  /\ grid' = w.grid
                    /\ IF w.raised
                       THEN /\ pc' = "raised"
                            /\ UNCHANGED <<placed, wordIdx>>
                       ELSE /\ placed' = Append(placed,
                                  [word |-> word, clue |-> clue,
                                   row |-> best.row, col |-> best.col,
                                   direction |-> best.direction])
                            /\ wordIdx' = wordIdx + 1
                            /\ pc' = pc
  /\ UNCHANGED <<story_providers, stories, html, other, seen, provider, PUZZLE_SETS, WORD_LISTS, DIRECTIONS, grid_size,
                 num_words, seed, rng, run, prev, theme, words, placements,
                 dirIdx, tries, attempts, fills, number_map, across_clues,
                 down_clues>>

\* crossword._generate, line 188
CwReturn ==
  /\ pc = "words"
  /\ provider = "crossword"
  /\ wordIdx > Len(words)
  /\ pc' = "generated"
  /\ UNCHANGED <<story_providers, stories, html, other, seen, provider, PUZZLE_SETS, WORD_LISTS, DIRECTIONS, grid_size,
                 num_words, seed, rng, run, prev, theme, words, wordIdx, grid,
                 placed, placements, dirIdx, tries, attempts, fills,
                 number_map, across_clues, down_clues>>

\* crossword.get_stories, line 278: _to_html numbers the starting cells and
\* builds the clue lists
CwToHtml ==
  /\ pc = "generated"
  /\ number_map' = NumberMap(placed)
  /\ across_clues' = CluesFrom(PlacedSorted(placed), NumberMap(placed), TRUE, 1)
  /\ down_clues' = CluesFrom(PlacedSorted(placed), NumberMap(placed), FALSE, 1)
  /\ pc' = "done"
  /\ UNCHANGED <<story_providers, stories, html, other, seen, provider, PUZZLE_SETS, WORD_LISTS, DIRECTIONS, grid_size,
                 num_words, seed, rng, run, prev, theme, words, wordIdx, grid,
                 placed, placements, dirIdx, tries, attempts, fills>>

\* wordsearch._generate, lines 83-89
WsGenerate ==
  /\ pc = "start"
  /\ provider = "wordsearch"
  /\ LET sel == WsSelection(WORD_LISTS, num_words, rng)
     IN  /\ theme' = sel.theme
         /\ words' = sel.words
         /\ rng' = sel.rng
  /\ grid' = EmptyGrid(grid_size)
  /\ placed' = << >>
  /\ placements' = << >>
  /\ wordIdx' = 1
  /\ fills' = 0
  /\ pc' = "words"
  /\ UNCHANGED <<story_providers, stories, html, other, seen, provider, PUZZLE_SETS, WORD_LISTS, DIRECTIONS, grid_size,
                 num_words, seed, run, prev, dirIdx, tries, attempts,
                 number_map, across_clues, down_clues>>

\* wordsearch._place_word, lines 55-57, called from _generate line 91
WsPlaceWordBegin ==
  /\ pc = "words"
  /\ provider = "wordsearch"
  /\ wordIdx <= Len(words)
  /\ LET sh == Shuffle(DIRECTIONS, rng)
     IN  /\ DIRECTIONS' = sh.list
         /\ rng' = sh.rng
  /\ attempts' = 0
  /\ dirIdx' = 1
  /\ tries' = 0
  /\ seen' = << >>
  /\ pc' = "attempt"
  /\ UNCHANGED <<story_providers, stories, html, other, provider, PUZZLE_SETS, WORD_LISTS, grid_size, num_words, seed,
                 run, prev, theme, words, wordIdx, grid, placed, placements,
                 fills, number_map, across_clues, down_clues>>

\* wordsearch._place_word, lines 58-79: one iteration of "for _ in range(50)"
\* for the direction the outer loop is at; the first iteration follows the
\* fetch of (dr, dc) from DIRECTIONS; on success the word is written,
\* _place_word returns True and _generate appends the word (line 92)
WsAttempt ==
  /\ pc = "attempt"
  /\ dirIdx <= Len(DIRECTIONS)
  /\ LET word == words[wordIdx]
         fetched == IF tries = 0 THEN DIRECTIONS[dirIdx] ELSE seen[Len(seen)]
         dr == fetched[1]
         dc == fetched[2]
         r == RandBelow(rng, grid_size)
         c == RandBelow(RngNext(rng), grid_size)
     IN  /\ rng' = RngNext(RngNext(rng))
         /\ seen' = (IF tries = 0 THEN Append(seen, fetched) ELSE seen)
         /\ attempts' = attempts + 1
         /\ IF WsFits(grid, grid_size, word, r, c, dr, dc)
            THEN /\ grid' = WsWrite(grid, word, r, c, dr, dc)
                 /\ placed' = Append(placed, word)
                 /\ placements' = Append(placements,
                       [word |-> word, row |-> r, col |-> c, dr |-> dr, dc |-> dc])
                 /\ wordIdx' = wordIdx + 1
                 /\ pc' = "words"
                 /\ UNCHANGED <<dirIdx, tries>>
            ELSE /\ tries' = (IF tries + 1 = TriesPerDirection THEN 0 ELSE tries + 1)
                 /\ dirIdx' = (IF tries + 1 = TriesPerDirection THEN dirIdx + 1 ELSE dirIdx)
                 /\ UNCHANGED <<grid, placed, placements, wordIdx, pc>>
  /\ UNCHANGED <<story_providers, stories, html, other, provider, PUZZLE_SETS, WORD_LISTS, DIRECTIONS, grid_size,
                 num_words, seed, run, prev, theme, words, fills, number_map,
                 across_clues, down_clues>>

\* wordsearch._place_word, line 80: every direction is exhausted
WsPlaceWordFail ==
  /\ pc = "attempt"
  /\ dirIdx > Len(DIRECTIONS)
  /\ wordIdx' = wordIdx + 1
  /\ pc' = "words"
  /\ UNCHANGED <<story_providers, stories, html, other, seen, provider, PUZZLE_SETS, WORD_LISTS, DIRECTIONS, grid_size,
                 num_words, seed, rng, run, prev, theme, words, grid, placed,
                 placements, dirIdx, tries, attempts, fills, number_map,
                 across_clues, down_clues>>

\* wordsearch._generate, lines 94-100: the noise fill and the return
WsFill ==
  /\ pc = "words"
  /\ provider = "wordsearch"
  /\ wordIdx > Len(words)
  /\ LET f == NoiseFill(grid, grid_size, rng)
     IN  /\ grid' = f.grid
         /\ rng' = f.rng
  /\ fills' = fills + 1
  /\ pc' = "done"
  /\ UNCHANGED <<story_providers, stories, html, other, seen, provider, PUZZLE_SETS, WORD_LISTS, DIRECTIONS, grid_size,
                 num_words, seed, run, prev, theme, words, wordIdx, placed,
                 placements, dirIdx, tries, attempts, number_map,
                 across_clues, down_clues>>

\* the caller seeds the generator with the same seed and generates again;
\* where says whether the module globals are those the first generation left
\* ("same" process) or those of a newly started interpreter ("fresh")
Rerun(where) ==
  /\ pc \in {"done", "raised"}
  /\ run = 1
  /\ prev' = [process |-> where, raised |-> (pc = "raised"),
              grid |-> grid, placed |-> placed]
  /\ run' = 2
  /\ rng' = seed
  /\ DIRECTIONS' = (IF where = "same" THEN DIRECTIONS ELSE SourceDirections)
  /\ pc' = "start"
  /\ theme' = ""
  /\ words' = << >>
  /\ wordIdx' = 0
  /\ grid' = EmptyGrid(grid_size)
  /\ placed' = << >>
  /\ placements' = << >>
  /\ dirIdx' = 0
  /\ tries' = 0
  /\ attempts' = 0
  /\ fills' = 0
  /\ number_map' = NoNumbers
  /\ across_clues' = << >>
  /\ down_clues' = << >>
  /\ seen' = << >>
  /\ UNCHANGED <<story_providers, stories, html, other, provider, PUZZLE_SETS, WORD_LISTS, grid_size, num_words,
                 seed>>

RerunSameProcess ==
  Rerun("same")

RerunFreshProcess ==
  Rerun("fresh")

Next ==
  \/ CwGenerate
  \/ CwPlaceFirst
  \/ CwPlaceNext
  \/ CwReturn
  \/ CwToHtml
  \/ WsGenerate
  \/ WsPlaceWordBegin
  \/ WsAttempt
  \/ WsPlaceWordFail
  \/ WsFill
  \/ RerunSameProcess
  \/ RerunFreshProcess

Spec ==
  Init /\ [][Next]_vars

\* the locals of the running call of _generate and _place_word
Locals ==
  [pc |-> pc, theme |-> theme, words |-> words, wordIdx |-> wordIdx,
   grid |-> grid, placed |-> placed, placements |-> placements,
   dirIdx |-> dirIdx, tries |-> tries, attempts |-> attempts,
   fills |-> fills, seen |-> seen]

\* the locals of a call of _generate that has not started
FreshLocals ==
  [pc |-> "start", theme |-> "", words |-> << >>, wordIdx |-> 0,
   grid |-> EmptyGrid(grid_size), placed |-> << >>, placements |-> << >>,
   dirIdx |-> 0, tries |-> 0, attempts |-> 0, fills |-> 0, seen |-> << >>]

\* two calls of wordsearch._generate in one process, e.g. on two threads:
\* the interpreter takes the running call off and puts the other one on.
\* The module globals DIRECTIONS and the generator of random are shared, the
\* locals (the grid among them) are each call's own.  The switch is taken
\* between two statements of _generate or in front of the fetch of the next
\* (dr, dc) in _place_word.
Switch ==
  /\ other.id # 0
  /\ other.loc.pc # "done"
  /\ pc \in {"start", "words", "done"} \/ (pc = "attempt" /\ tries = 0)
  /\ other' = [id |-> 3 - other.id, loc |-> Locals]
  /\ pc' = other.loc.pc
  /\ theme' = other.loc.theme
  /\ words' = other.loc.words
  /\ wordIdx' = other.loc.wordIdx
  /\ grid' = other.loc.grid
  /\ placed' = other.loc.placed
  /\ placements' = other.loc.placements
  /\ dirIdx' = other.loc.dirIdx
  /\ tries' = other.loc.tries
  /\ attempts' = other.loc.attempts
  /\ fills' = other.loc.fills
  /\ seen' = other.loc.seen
  /\ UNCHANGED <<story_providers, stories, html, provider, PUZZLE_SETS, WORD_LISTS, DIRECTIONS, grid_size,
                 num_words, seed, rng, run, prev, number_map, across_clues,
                 down_clues>>

\* two calls of the word search on one provider, the first one about to
\* run, the second one not yet started; the one word of the list fits the
\* grid of 8 and does not fit the grid of 5
InterleavedInit ==
  /\ provider = "wordsearch"
  /\ PUZZLE_SETS = SourcePuzzleSets
  /\ WORD_LISTS = SingleWordLists
  /\ grid_size \in {5, 8}
  /\ DIRECTIONS = SourceDirections
  /\ num_words = 1
  /\ seed \in {0, MaxSeed}
  /\ rng = seed
  /\ run = 1
  /\ prev = NoResult
  /\ pc = "start"
  /\ theme = ""
  /\ words = << >>
  /\ wordIdx = 0
  /\ grid = EmptyGrid(grid_size)
  /\ placed = << >>
  /\ placements = << >>
  /\ dirIdx = 0
  /\ tries = 0
  /\ attempts = 0
  /\ fills = 0
  /\ number_map = NoNumbers
  /\ across_clues = << >>
  /\ down_clues = << >>
  /\ seen = << >>
  /\ other = [id |-> 2, loc |-> FreshLocals]
  /\ story_providers = << >>
  /\ stories = NoStories
  /\ html = NoHtml

InterleavedNext ==
  \/ WsGenerate
  \/ WsPlaceWordBegin
  \/ WsAttempt
  \/ WsPlaceWordFail
  \/ WsFill
  \/ Switch

InterleavedSpec ==
  InterleavedInit /\ [][InterleavedNext]_vars

-----------------------------------------------------------------------------
(* The Goosepaper: get_stories and to_html over a list of providers.  A    *)
(* text the code takes apart (a class name, a section name, a slug) is a   *)
(* sequence of characters; a headline is only compared and stays a string. *)

\* at most MaxProviders providers are configured
MaxProviders ==
  3

\* str.lower on the letters A-Z
LowerAlphabet ==
  << "a","b","c","d","e","f","g","h","i","j","k","l","m",
     "n","o","p","q","r","s","t","u","v","w","x","y","z" >>

DecimalDigits ==
  << "0","1","2","3","4","5","6","7","8","9" >>

\* str.lower, letter by letter
LowerOf ==
  [c \in Letters |-> LowerAlphabet[CHOOSE k \in 1..26 : Alphabet[k] = c]]

LowerChar(c) ==
  IF c \in Letters THEN LowerOf[c] ELSE c

\* text.lower()
ToLower(text) ==
  [k \in 1..Len(text) |-> LowerChar(text[k])]

\* the class \w of re
WordChars ==
  Letters \cup { LowerAlphabet[k] : k \in 1..26 }
          \cup { DecimalDigits[k] : k \in 1..10 } \cup {"_"}

IsWordChar(c) ==
  c \in WordChars

\* the class \s of re
IsSpaceChar(c) ==
  c \in {" ", "\t", "\n"}

\* re.sub(r"[^\w\s-]", "", text)
DropOtherChars(text) ==
  SelectSeq(text, LAMBDA c : IsWordChar(c) \/ IsSpaceChar(c) \/ c = "-")

\* re.sub(r"[\s_]+", "-", text): every maximal run of blanks and underscores
\* becomes one hyphen
RECURSIVE HyphenateRuns(_)
HyphenateRuns(text) ==
  IF text = << >> THEN << >>
  ELSE IF IsSpaceChar(Head(text)) \/ Head(text) = "_"
       THEN IF Len(text) > 1 /\ (IsSpaceChar(text[2]) \/ text[2] = "_")
            THEN HyphenateRuns(Tail(text))
            ELSE <<"-">> \o HyphenateRuns(Tail(text))
       ELSE <<Head(text)>> \o HyphenateRuns(Tail(text))

\* text.strip("-")
RECURSIVE StripHyphens(_)
StripHyphens(text) ==
  IF text = << >> THEN << >>
  ELSE IF Head(text) = "-" THEN StripHyphens(Tail(text))
  ELSE IF text[Len(text)] = "-" THEN StripHyphens(SubSeq(text, 1, Len(text) - 1))
  ELSE text

Slugify(text) ==
  StripHyphens(HyphenateRuns(DropOtherChars(ToLower(text))))

\* str(i) of the format f"-{i}"
RECURSIVE Decimal(_)
Decimal(i) ==
  IF i < 10 THEN <<DecimalDigits[i + 1]>>
  ELSE Decimal(i \div 10) \o <<DecimalDigits[(i % 10) + 1]>>

\* text.startswith(old)
StartsWith(text, old) ==
  Len(old) <= Len(text) /\ SubSeq(text, 1, Len(old)) = old

\* text.replace(old, "")
RECURSIVE Remove(_, _)
Remove(text, old) ==
  IF text = << >> THEN << >>
  ELSE IF StartsWith(text, old)
       THEN Remove(SubSeq(text, Len(old) + 1, Len(text)), old)
       ELSE <<Head(text)>> \o Remove(Tail(text), old)

\* getattr(prov, attr, default)
GetAttr(prov, attr, default) ==
  IF attr \in DOMAIN prov THEN prov[attr] ELSE default

StoryProviderSuffix ==
    <<"S","t","o","r","y","P","r","o","v","i","d","e","r">>

ProviderSuffix ==
    <<"P","r","o","v","i","d","e","r">>

CleanRSSFeedStoryProvider ==
    <<"C","l","e","a","n","R","S","S","F","e","e","d","S","t","o","r","y",
  "P","r","o","v","i","d","e","r">>

RedditHeadlineStoryProvider ==
    <<"R","e","d","d","i","t","H","e","a","d","l","i","n","e","S","t","o",
  "r","y","P","r","o","v","i","d","e","r">>

RedditFullStoryProvider ==
    <<"R","e","d","d","i","t","F","u","l","l","S","t","o","r","y","P","r",
  "o","v","i","d","e","r">>

WordSearchStoryProvider ==
    <<"W","o","r","d","S","e","a","r","c","h","S","t","o","r","y","P","r",
  "o","v","i","d","e","r">>

CrosswordStoryProvider ==
    <<"C","r","o","s","s","w","o","r","d","S","t","o","r","y","P","r","o",
  "v","i","d","e","r">>

OpenMeteoWeatherStoryProvider ==
  <<"O","p","e","n","M","e","t","e","o","W","e","a","t","h","e","r","S","t",
  "o","r","y","P","r","o","v","i","d","e","r">>

\* a provider of a class name_map does not name
MastodonStoryProvider ==
    <<"M","a","s","t","o","d","o","n","S","t","o","r","y","P","r","o","v",
  "i","d","e","r">>

\* the entries of name_map whose value depends on the class only
FixedNames ==
  {
    <<<<"F","i","v","e","D","a","y","F","o","r","e","c","a","s","t","P","r",
      "o","v","i","d","e","r">>,
      <<"W","e","a","t","h","e","r">>>>,
    <<OpenMeteoWeatherStoryProvider,
      <<"W","e","a","t","h","e","r">>>>,
    <<<<"R","S","S","F","e","e","d","S","t","o","r","y","P","r","o","v","i",
      "d","e","r">>,
      <<"N","e","w","s">>>>,
    <<<<"W","i","k","i","p","e","d","i","a","C","u","r","r","e","n","t","E",
      "v","e","n","t","s","S","t","o","r","y","P","r","o","v","i","d","e",
      "r">>,
      <<"C","u","r","r","e","n","t"," ","E","v","e","n","t","s">>>>,
    <<<<"X","K","C","D","S","t","o","r","y","P","r","o","v","i","d","e",
      "r">>,
      <<"X","K","C","D">>>>,
    <<<<"N","a","s","a","A","p","o","d","S","t","o","r","y","P","r","o","v",
      "i","d","e","r">>,
      <<"N","A","S","A"," ","A","P","O","D">>>>,
    <<WordSearchStoryProvider,
      <<"W","o","r","d"," ","S","e","a","r","c","h">>>>,
    <<CrosswordStoryProvider,
      <<"C","r","o","s","s","w","o","r","d">>>>
  }

GAME_PROVIDERS ==
  {WordSearchStoryProvider, CrosswordStoryProvider}

IsGameProvider(prov) ==
  prov.cls \in GAME_PROVIDERS

ProviderSectionName(prov) ==
  IF prov.cls = CleanRSSFeedStoryProvider
  THEN (IF GetAttr(prov, "name", << >>) # << >>
        THEN GetAttr(prov, "name", << >>)
        ELSE <<"N","e","w","s">>)
  ELSE IF prov.cls \in {RedditHeadlineStoryProvider, RedditFullStoryProvider}
  THEN <<"r", "/">> \o GetAttr(prov, "subreddit", <<"r","e","d","d","i","t">>)
  ELSE IF \E e \in FixedNames : e[1] = prov.cls
  THEN (CHOOSE e \in FixedNames : e[1] = prov.cls)[2]
  ELSE Remove(Remove(prov.cls, StoryProviderSuffix), ProviderSuffix)

\* Story(headline, date, body_html, placement_preference); date 0 is None
NewStory(headline, date, body_html, placement_preference) ==
  [headline |-> headline, date |-> date, body_html |-> body_html,
   placement_preference |-> placement_preference]

\* a story is left out when a story of the list has its headline
RECURSIVE AddStoriesByHeadline(_, _, _)
AddStoriesByHeadline(list, new_stories, deduplicate) ==
  IF new_stories = << >> THEN list
  ELSE LET a == Head(new_stories)
           dup == \E k \in 1..Len(list) : a.headline = list[k].headline
       IN  AddStoriesByHeadline(IF deduplicate /\ dup THEN list ELSE Append(list, a),
                                Tail(new_stories), deduplicate)

\* Goosepaper.get_stories, lines 57-65: the stories of one provider are
\* added to the list; with deduplicate a story is left out when a story of
\* the list has its headline and its date
RECURSIVE AddStories(_, _, _)
AddStories(list, new_stories, deduplicate) ==
  IF new_stories = << >> THEN list
  ELSE LET a == Head(new_stories)
           dup == \E k \in 1..Len(list) :
                    a.headline = list[k].headline /\ a.date = list[k].date
       IN  AddStories(IF deduplicate /\ dup THEN list ELSE Append(list, a),
                      Tail(new_stories), deduplicate)

\* Goosepaper.get_stories, lines 54-66, from provider k on
RECURSIVE GetStoriesFrom(_, _, _, _)
GetStoriesFrom(provs, k, list, deduplicate) ==
  IF k > Len(provs) THEN list
  ELSE GetStoriesFrom(provs, k + 1,
                      AddStories(list, provs[k].stories, deduplicate),
                      deduplicate)

GetStoriesOf(provs, deduplicate) ==
  GetStoriesFrom(provs, 1, << >>, deduplicate)

\* _get_stories_by_provider: (i, prov, stories) of every provider with
\* stories, i counting from 0
RECURSIVE GroupedFrom(_, _)
GroupedFrom(provs, k) ==
  IF k > Len(provs) THEN << >>
  ELSE (IF provs[k].stories # << >>
        THEN <<[i |-> k - 1, prov |-> provs[k], stories |-> provs[k].stories]>>
        ELSE << >>)
       \o GroupedFrom(provs, k + 1)

StoriesByProvider(provs) ==
  GroupedFrom(provs, 1)

\* the providers left as configured
GamesAsConfigured(grouped) ==
  grouped

\* to_html, lines 115-117: non-games first, games last
GamesLast(grouped) ==
  SelectSeq(grouped, LAMBDA g : ~IsGameProvider(g.prov))
    \o SelectSeq(grouped, LAMBDA g : IsGameProvider(g.prov))

\* to_html, line 123
SectionSlug(prov, i) ==
  Slugify(ProviderSectionName(prov)) \o <<"-">> \o Decimal(i)

\* sections[slug] = info on an OrderedDict: a new key goes to the end, a key
\* already there keeps its place and takes the new value
PutSection(sections, slug, info) ==
  IF \E k \in 1..Len(sections) : sections[k].slug = slug
  THEN [k \in 1..Len(sections) |->
          IF sections[k].slug = slug THEN [slug |-> slug, info |-> info]
          ELSE sections[k]]
  ELSE Append(sections, [slug |-> slug, info |-> info])

\* to_html, lines 120-124
RECURSIVE SectionsFrom(_, _, _)
SectionsFrom(grouped, k, sections) ==
  IF k > Len(grouped) THEN sections
  ELSE SectionsFrom(grouped, k + 1,
         PutSection(sections, SectionSlug(grouped[k].prov, grouped[k].i),
                    [name |-> ProviderSectionName(grouped[k].prov),
                     stories |-> grouped[k].stories,
                     prov |-> grouped[k].prov]))

Sections(provs) ==
  SectionsFrom(GamesLast(StoriesByProvider(provs)), 1, << >>)

\* to_html, lines 127-129: the href of each link
NavLinks(sections) ==
  [k \in 1..Len(sections) |-> sections[k].slug]

HasStory(list, prefs) ==
  \E k \in 1..Len(list) : list[k].placement_preference \in prefs

\* to_html, lines 139-194: the id of the anchor of every part added to the
\* list named by part ("game", "banner", "main", "sidebar"), in the order
\* of sections
RECURSIVE PartsFrom(_, _, _)
PartsFrom(sections, k, part) ==
  IF k > Len(sections) THEN << >>
  ELSE LET info == sections[k].info
           game == IsGameProvider(info.prov)
           adds ==
             CASE part = "game" -> game /\ info.stories # << >>
               [] part = "banner" ->
                    ~game /\ HasStory(info.stories, {"BANNER"})
               [] part = "main" ->
                    ~game /\ HasStory(info.stories, {"NONE", "FULLPAGE", "FOLIO"})
               [] part = "sidebar" ->
                    ~game /\ HasStory(info.stories, {"SIDEBAR"})
       IN  (IF adds THEN <<sections[k].slug>> ELSE << >>)
           \o PartsFrom(sections, k + 1, part)

\* to_html, lines 111-241: the hrefs of the navigation and the ids of the
\* anchors of the three blocks of the page, each in document order; the
\* banner block is the first part of the main content
HtmlOf(provs) ==
  LET sections == Sections(provs)
  IN  [called |-> TRUE,
       nav_links |-> NavLinks(sections),
       banner_block |-> PartsFrom(sections, 1, "banner"),
       main_content |-> PartsFrom(sections, 1, "banner")
                          \o PartsFrom(sections, 1, "main"),
       sidebar_content |-> PartsFrom(sections, 1, "sidebar"),
       games_content |-> PartsFrom(sections, 1, "game")]

\* what the get_stories of a provider may return: stories of two headlines
\* and two dates for every block of the page, lists sharing a headline and
\* a date, and a list holding a story twice
StoryLists ==
  << << >>,
     <<NewStory("Budget", 1, "a", "NONE")>>,
     <<NewStory("Storm", 1, "b", "EAR")>>,
     <<NewStory("Budget", 1, "c", "NONE"), NewStory("Storm", 1, "d", "NONE")>>,
     <<NewStory("Budget", 2, "e", "BANNER"), NewStory("Budget", 1, "f", "SIDEBAR")>>,
     <<NewStory("Storm", 2, "g", "SIDEBAR"), NewStory("Storm", 2, "h", "SIDEBAR")>> >>

\* wordsearch.get_stories and crossword.get_stories, one story without date
GameStories(headline) ==
  <<NewStory(headline, 0, "grid", "NONE")>>

\* the providers a Goosepaper is configured with: the feeds, the subreddit
\* and the games of this repository, whose stories go to the main column,
\* and providers of other packages, whose stories name their block
ProviderPool ==
  { [cls |-> CleanRSSFeedStoryProvider, name |-> << >>,
     stories |-> StoryLists[k]] : k \in 1..2 }
  \cup
  { [cls |-> CleanRSSFeedStoryProvider, name |-> <<"T","e","c","h"," ","N","e","w","s">>,
     stories |-> StoryLists[4]],
    [cls |-> CleanRSSFeedStoryProvider, name |-> <<"T","e","c","h","_","N","e","w","s","!">>,
     stories |-> StoryLists[2]],
    [cls |-> RedditFullStoryProvider, subreddit |-> <<"p","y","t","h","o","n">>,
     stories |-> StoryLists[4]],
    [cls |-> RedditHeadlineStoryProvider, subreddit |-> <<"p","y","t","h","o","n">>,
     stories |-> StoryLists[6]],
    [cls |-> OpenMeteoWeatherStoryProvider, stories |-> StoryLists[3]],
    [cls |-> MastodonStoryProvider, stories |-> StoryLists[5]],
    [cls |-> WordSearchStoryProvider,
     stories |-> GameStories("Word Search: Animals")],
    [cls |-> CrosswordStoryProvider,
     stories |-> GameStories("Crossword: Nature")] }

RECURSIVE ProviderLists(_)
ProviderLists(n) ==
  IF n = 0 THEN {<< >>}
  ELSE ProviderLists(n - 1)
       \cup { Append(l, p) : l \in { m \in ProviderLists(n - 1) : Len(m) = n - 1 },
                             p \in ProviderPool }

puzzleVars == <<provider, PUZZLE_SETS, WORD_LISTS, DIRECTIONS, grid_size,
                num_words, seed, rng, run, prev, pc, theme, words, wordIdx,
                grid, placed, placements, dirIdx, tries, attempts, fills,
                number_map, across_clues, down_clues, seen, other>>

\* Goosepaper.__init__ with a list of providers; no puzzle is being
\* generated and the variables of the puzzles are left empty
PaperInit ==
  /\ story_providers \in ProviderLists(MaxProviders)
  /\ stories = NoStories
  /\ html = NoHtml
  /\ provider = "goosepaper"
  /\ PUZZLE_SETS = EmptyPuzzleSets
  /\ WORD_LISTS = EmptyWordLists
  /\ DIRECTIONS = SourceDirections
  /\ grid_size = 5
  /\ num_words = 1
  /\ seed = 0
  /\ rng = 0
  /\ run = 1
  /\ prev = NoResult
  /\ pc = "start"
  /\ theme = ""
  /\ words = << >>
  /\ wordIdx = 0
  /\ grid = EmptyGrid(5)
  /\ placed = << >>
  /\ placements = << >>
  /\ dirIdx = 0
  /\ tries = 0
  /\ attempts = 0
  /\ fills = 0
  /\ number_map = NoNumbers
  /\ across_clues = << >>
  /\ down_clues = << >>
  /\ seen = << >>
  /\ other = NoCall

\* Goosepaper.get_stories(deduplicate)
GetStories ==
  /\ \E deduplicate \in BOOLEAN :
       stories' = [called |-> TRUE, deduplicate |-> deduplicate,
                   list |-> GetStoriesOf(story_providers, deduplicate)]
  /\ UNCHANGED <<story_providers, html>>
  /\ UNCHANGED puzzleVars

\* Goosepaper.to_html()
ToHtml ==
  /\ html' = HtmlOf(story_providers)
  /\ UNCHANGED <<story_providers, stories>>
  /\ UNCHANGED puzzleVars

PaperNext ==
  \/ GetStories
  \/ ToHtml

PaperSpec ==
  PaperInit /\ [][PaperNext]_vars

TypeOK ==
  /\ pc \in {"start", "first", "words", "attempt", "generated", "done", "raised"}
  /\ run \in {1, 2}
  /\ rng \in 0..65536
  /\ DOMAIN grid = Cells(grid_size)
  /\ \A p \in DOMAIN grid : grid[p] \in Letters \cup {""}


-----------------------------------------------------------------------------
(* Vocabulary of the properties. *)

\* the i-th selected word
SelectedWord(i) ==
  IF provider = "crossword" THEN words[i][1] ELSE words[i]

\* no selected word is longer than the grid
FitsGrid ==
  \A i \in 1..Len(words) : Len(SelectedWord(i)) <= grid_size

\* the placements of the running generation as word, origin and direction
Placements ==
  IF provider = "crossword"
  THEN [i \in 1..Len(placed) |->
          [word |-> placed[i].word, row |-> placed[i].row, col |-> placed[i].col,
           dr |-> Delta(placed[i].direction)[1],
           dc |-> Delta(placed[i].direction)[2]]]
  ELSE placements

\* the cell of the k-th letter of placement p: origin + (k-1) * direction
LetterCell(p, k) ==
  <<p.row + p.dr * (k - 1), p.col + p.dc * (k - 1)>>

OnGrid(cell) ==
  InBounds(cell[1], cell[2], grid_size)

\* cell is off the grid or empty
Free(cell) ==
  OnGrid(cell) => grid[cell] = ""

\* crossword._generate has returned
CwReturned ==
  provider = "crossword" /\ pc \in {"generated", "done"}

\* wordsearch._generate has returned
WsReturned ==
  provider = "wordsearch" /\ pc = "done"

Mountain ==
  <<"M","O","U","N","T","A","I","N">>

River ==
  <<"R","I","V","E","R">>

-----------------------------------------------------------------------------
(* Properties. *)

\* C1: every letter cell of every placement the crossword generation
\* returns, the origin included, is on the grid, provided no selected word
\* is longer than grid_size.
C1_Bounds ==
  (CwReturned /\ FitsGrid) =>
    \A i \in 1..Len(placed) : \A k \in 1..Len(placed[i].word) :
      OnGrid(LetterCell(Placements[i], k))

\* C2: when the crossword generation returns, the cell before the origin and
\* the cell after the last letter of every placement are off the grid or
\* empty in the final grid.
C2_BoundaryIsolation ==
  CwReturned =>
    \A i \in 1..Len(placed) :
      LET p == Placements[i]
      IN  /\ Free(LetterCell(p, 0))
          /\ Free(LetterCell(p, Len(p.word) + 1))

\* C3: in both placers and in every state, a grid cell covered by a placed
\* word holds the letter that word has there, and two placed words that
\* share a cell have the same letter on it.
C3_CollisionConsistency ==
  LET P == Placements
  IN  \A i \in 1..Len(P) : \A k \in 1..Len(P[i].word) :
        LET cell == LetterCell(P[i], k)
        IN  OnGrid(cell) =>
              /\ grid[cell] = P[i].word[k]
              /\ \A j \in 1..Len(P) : \A l \in 1..Len(P[j].word) :
                   LetterCell(P[j], l) = cell => P[j].word[l] = P[i].word[k]

\* two different placed words cover one cell of the grid
C3_Witness ==
  \E i, j \in 1..Len(Placements) :
    /\ i < j
    /\ \E k \in 1..Len(Placements[i].word) : \E l \in 1..Len(Placements[j].word) :
         /\ OnGrid(LetterCell(Placements[i], k))
         /\ LetterCell(Placements[i], k) = LetterCell(Placements[j], l)

\* the crossword generation with grid_size 15 and the selected words RIVER
\* and MOUNTAIN
C4_Scenario ==
  /\ provider = "crossword"
  /\ grid_size = 15
  /\ Len(words) = 2
  /\ {words[1][1], words[2][1]} = {River, Mountain}

\* C4 as stated: MOUNTAIN across on row 7, columns 3-10, then RIVER down from
\* (7,9), numbers 1 at (7,3) and 2 at (7,9).
C4_Original ==
  (C4_Scenario /\ pc = "done") =>
    /\ Len(placed) = 2
    /\ placed[1].word = Mountain /\ placed[1].direction = "across"
    /\ placed[1].row = 7 /\ placed[1].col = 3
    /\ placed[2].word = River /\ placed[2].direction = "down"
    /\ placed[2].row = 7 /\ placed[2].col = 9
    /\ number_map = (<<7, 3>> :> 1 @@ <<7, 9>> :> 2)

\* C4 as amended: MOUNTAIN is placed first, across, on row 7 in columns 3-10;
\* RIVER is placed second, down, with its origin at (6,9), occupying rows
\* 6-10 and crossing MOUNTAIN at its I; the numbering gives 1 to (6,9) and 2
\* to (7,3).
C4_Amended ==
  C4_Scenario =>
    /\ Len(placed) >= 1 =>
         /\ placed[1].word = Mountain /\ placed[1].direction = "across"
         /\ placed[1].row = 7 /\ placed[1].col = 3
         /\ \A k \in 1..8 : grid[<<7, 2 + k>>] = Mountain[k]
    /\ pc \in {"generated", "done"} =>
         /\ Len(placed) = 2
         /\ placed[2].word = River /\ placed[2].direction = "down"
         /\ placed[2].row = 6 /\ placed[2].col = 9
         /\ \A k \in 1..5 : grid[<<5 + k, 9>>] = River[k]
    /\ pc = "done" => number_map = (<<6, 9>> :> 1 @@ <<7, 3>> :> 2)

C4_Witness ==
  C4_Scenario /\ pc = "done" /\ Len(placed) = 2 /\ DOMAIN number_map # {}

\* C5: with grid_size 5 and one 8-letter word selected the generation ends
\* without an error, with no placement, the crossword grid empty and the
\* word-search grid all noise.
C5_OversizeWord ==
  (/\ grid_size = 5
   /\ pc \in {"words", "attempt", "generated", "done", "raised"}
   /\ Len(words) = 1
   /\ Len(SelectedWord(1)) = 8)
    => /\ pc # "raised"
       /\ Len(placed) = 0
       /\ CwReturned => \A p \in Cells(grid_size) : grid[p] = ""
       /\ WsReturned => /\ placements = << >>
                        /\ \A p \in Cells(grid_size) : grid[p] \in Letters

\* C6: when the selected theme has no words the generation raises no error
\* and returns no placement, an empty grid (crossword) or an all-noise grid
\* (word search).
C6_EmptyTheme ==
  (pc # "start" /\ Len(words) = 0)
    => /\ pc # "raised"
       /\ Len(placed) = 0
       /\ CwReturned => \A p \in Cells(grid_size) : grid[p] = ""
       /\ WsReturned => /\ placements = << >>
                        /\ \A p \in Cells(grid_size) : grid[p] \in Letters

\* C7: a generation repeated with the same seed, theme, grid_size and
\* num_words, in a fresh process or in the same process after re-seeding,
\* returns the grid and the placement list of the first generation.
C7_Determinism ==
  (run = 2 /\ (CwReturned \/ WsReturned)) =>
    /\ ~prev.raised
    /\ grid = prev.grid
    /\ placed = prev.placed

\* C8: every word of the list the word-search generation returns is spelled
\* in the final grid by the cells it was written to, from its origin along
\* its direction.
C8_Readable ==
  WsReturned =>
    /\ Len(placements) = Len(placed)
    /\ \A i \in 1..Len(placed) :
         /\ placements[i].word = placed[i]
         /\ \A k \in 1..Len(placed[i]) :
              /\ OnGrid(LetterCell(placements[i], k))
              /\ grid[LetterCell(placements[i], k)] = placed[i][k]

\* a returned word search in which a later word crosses an earlier one and
\* noise was filled in
C8_Witness ==
  /\ WsReturned
  /\ fills = 1
  /\ \E i, j \in 1..Len(placements) :
       /\ i < j
       /\ \E k \in 1..Len(placements[i].word) : \E l \in 1..Len(placements[j].word) :
            LetterCell(placements[i], k) = LetterCell(placements[j], l)

\* C9: the noise fill runs once, after the last word was attempted, and
\* leaves every cell that holds a letter as it is.
C9_NoiseFillFrame ==
  [][ /\ (provider = "wordsearch" /\ run' = run /\ grid' # grid /\ pc' = "done") =>
           /\ wordIdx > Len(words)
           /\ fills = 0 /\ fills' = 1
           /\ \A p \in Cells(grid_size) : grid[p] # "" => grid'[p] = grid[p]
      /\ (provider = "wordsearch" /\ run' = run /\ fills' # fills) =>
           /\ fills' = 1
           /\ wordIdx > Len(words)
           /\ pc' = "done"
      /\ (provider = "wordsearch" /\ pc = "done" /\ run' = run) => grid' = grid
    ]_vars

\* a returned word search with a placed word and a noise cell
C9_Witness ==
  /\ WsReturned
  /\ fills = 1
  /\ Len(placements) >= 1
  /\ \E p \in Cells(grid_size) :
       \A i \in 1..Len(placements) : \A k \in 1..Len(placements[i].word) :
         LetterCell(placements[i], k) # p

\* C10: the grid the word-search generation returns is a full grid_size x
\* grid_size matrix of uppercase letters.
C10_CompleteGrid ==
  WsReturned =>
    /\ DOMAIN grid = Cells(grid_size)
    /\ \A p \in Cells(grid_size) : grid[p] \in Letters

\* a returned word search in which no word was placed
C10_Witness ==
  WsReturned /\ Len(words) >= 1 /\ Len(placed) = 0

\* placements i (across) and j (down) start on the same cell
SharedStart(i, j) ==
  /\ placed[i].direction = "across"
  /\ placed[j].direction = "down"
  /\ placed[i].row = placed[j].row
  /\ placed[i].col = placed[j].col

\* the entries of clues that carry the clue of placement i all have number n,
\* and there is one
NumberedAs(clues, i, n) ==
  /\ \E a \in 1..Len(clues) : clues[a] = <<n, placed[i].clue, Len(placed[i].word)>>
  /\ \A a \in 1..Len(clues) : clues[a][2] = placed[i].clue => clues[a][1] = n

\* C11: a cell on which an across and a down placement start has one number,
\* and the across clue entry and the down clue entry both carry it.
C11_SharedStartNumber ==
  (provider = "crossword" /\ pc = "done") =>
    \A i, j \in 1..Len(placed) :
      SharedStart(i, j) =>
        LET cell == <<placed[i].row, placed[i].col>>
        IN  /\ cell \in DOMAIN number_map
            /\ NumberedAs(across_clues, i, number_map[cell])
            /\ NumberedAs(down_clues, j, number_map[cell])

\* a numbered crossword with an across and a down word starting on one cell
C11_Witness ==
  /\ provider = "crossword"
  /\ pc = "done"
  /\ \E i, j \in 1..Len(placed) : SharedStart(i, j)

Ended ==
  pc \in {"done", "raised"}

IsPrefix(s, t) ==
  Len(s) <= Len(t) /\ SubSeq(t, 1, Len(s)) = s

\* the steps one word of the word search can take: _place_word is entered,
\* makes at most 8 x 50 attempts and is left
WsStepsPerWord ==
  8 * 50 + 2

\* an upper bound on the number of steps the running call can still take
Remaining ==
  CASE Ended -> 0
    [] pc = "start" -> (num_words + 1) * WsStepsPerWord + 2
    [] pc = "first" -> num_words + 3
    [] pc = "generated" -> 1
    [] pc = "words" /\ provider = "crossword" -> (Len(words) - wordIdx + 1) + 2
    [] pc = "words" /\ provider = "wordsearch" ->
         (Len(words) - wordIdx + 1) * WsStepsPerWord + 1
    [] pc = "attempt" ->
         (Len(words) - wordIdx) * WsStepsPerWord + 1 + (8 * 50 + 1 - attempts)

\* C12: every generation call ends: each step of a running call strictly
\* lowers a natural number, so no call runs for ever; word search makes at
\* most 8 x 50 candidate attempts per word, and crossword handles each
\* candidate word in one step that moves on to the next word and never takes
\* back an earlier placement
C12_Termination ==
  [][~Ended =>
       /\ Remaining \in Nat /\ Remaining' \in Nat
       /\ Remaining' < Remaining
       /\ provider = "wordsearch" => attempts' <= 8 * 50
       /\ (provider = "crossword" /\ pc = "words") =>
            /\ pc' = "raised" \/ pc' = "generated" \/ wordIdx' = wordIdx + 1
            /\ IsPrefix(placed, placed')]_vars

C12_Witness ==
  /\ provider = "wordsearch"
  /\ pc = "done"
  /\ attempts = 8 * 50
  /\ placed = << >>
  /\ words # << >>

PlacementSucceeded(w) ==
  \E k \in 1..Len(placements) : placements[k].word = w

\* C13: the list word-search generation returns is the attempted list (the
\* shuffled theme words cut to num_words) with exactly the words that could
\* not be placed left out, in the order attempted, and the call never raises
C13_PlacedSubsequence ==
  provider = "wordsearch" =>
    /\ pc # "raised"
    /\ pc = "done" =>
         /\ Len(words) <= num_words
         /\ Len(placed) <= num_words
         /\ placed = SelectSeq(words, PlacementSucceeded)
         /\ \A k \in 1..Len(placements) :
              \E i \in 1..Len(words) : words[i] = placements[k].word

C13_Witness ==
  /\ WsReturned
  /\ \E i, j, k \in 1..Len(words) :
       /\ i < j /\ j < k
       /\ PlacementSucceeded(words[i])
       /\ ~PlacementSucceeded(words[j])
       /\ PlacementSucceeded(words[k])
       /\ Len(placed) = Len(words) - 1

\* placements m and n are perpendicular and have a cell in common where both
\* words have the same letter
Crosses(m, n) ==
  LET P == Placements
  IN  /\ placed[m].direction # placed[n].direction
      /\ \E i \in 1..Len(P[m].word), j \in 1..Len(P[n].word) :
           /\ LetterCell(P[m], i) = LetterCell(P[n], j)
           /\ OnGrid(LetterCell(P[n], j))
           /\ P[m].word[i] = P[n].word[j]

\* C14: every crossword placement after the first crosses an earlier
\* placement of the other orientation at a cell where both words have the
\* same letter
C14_Intersection ==
  provider = "crossword" =>
    \A n \in 2..Len(placed) : \E m \in 1..(n - 1) : Crosses(m, n)

C14_Witness ==
  /\ CwReturned
  /\ Len(placed) >= 3
  /\ \E n \in 3..Len(placed) :
       /\ placed[n].direction = "across"
       /\ \E m \in 2..(n - 1) : Crosses(m, n)
       /\ ~Crosses(1, n)

\* C15: crossword generation returns at most num_words placements, in
\* non-increasing order of word length, and the first placement is a longest
\* of the selected words
C15_LongestFirst ==
  CwReturned =>
    /\ Len(placed) <= num_words
    /\ \A m, n \in 1..Len(placed) :
         m < n => Len(placed[m].word) >= Len(placed[n].word)
    /\ Len(placed) >= 1
    /\ \A i \in 1..Len(words) : Len(placed[1].word) >= Len(words[i][1])
    /\ \E i \in 1..Len(words) : words[i] = <<placed[1].word, placed[1].clue>>

C15_Witness ==
  /\ CwReturned
  /\ Len(placed) >= 3
  /\ Len(placed) < Len(words)
  /\ Len(placed[1].word) > Len(placed[2].word)
  /\ Len(placed[2].word) > Len(placed[3].word)

\* C16: when crossword generation has returned, a cell of the grid is
\* non-empty if and only if it is one of the cells origin + k * direction of
\* a returned placement, and it holds that placement's letter
C16_Replay ==
  CwReturned =>
    /\ \A cell \in Cells(grid_size) : grid[cell] # "" <=> cell \in Used(placed)
    /\ \A n \in 1..Len(placed) : \A k \in 1..Len(placed[n].word) :
         LET cell == LetterCell(Placements[n], k)
         IN  OnGrid(cell) => grid[cell] = placed[n].word[k]

\* C17: once crossword generation is past its first word, the first
\* (longest) selected word is the first entry of the placement list, across,
\* at row grid_size // 2 and starting column (grid_size - len(word)) // 2,
\* whatever the size of the grid
C17_FirstWord ==
  (provider = "crossword" /\ pc \notin {"start", "first"} /\ words # << >>) =>
    /\ Len(placed) >= 1
    /\ placed[1] = [word |-> words[1][1], clue |-> words[1][2],
                    row |-> grid_size \div 2,
                    col |-> (grid_size - Len(words[1][1])) \div 2,
                    direction |-> "across"]

\* the anchors of the candidate word: placed word n, letter i of the placed
\* word, letter j of the candidate, with the same letter
Anchors(word) ==
  {a \in UNION {{<<n, i, j>> : i \in 1..Len(placed[n].word), j \in 1..Len(word)} :
                  n \in 1..Len(placed)} :
     placed[a[1]].word[a[2]] = word[a[3]]}

\* the placement the anchor a stands for
AnchorPlacement(word, a) ==
  LET p == Placements[a[1]]
      cell == LetterCell(p, a[2])
      across == placed[a[1]].direction = "down"
  IN  [word |-> word,
       row |-> IF across THEN cell[1] ELSE cell[1] - (a[3] - 1),
       col |-> IF across THEN cell[2] - (a[3] - 1) ELSE cell[2],
       direction |-> IF across THEN "across" ELSE "down"]

\* the anchor validates against the grid as it is
Validates(word, a) ==
  LET q == AnchorPlacement(word, a)
      d == Delta(q.direction)
  IN  TryPlace(grid, grid_size, word, q.row, q.col, d[1], d[2]) = "True"

\* the nested scan order
ScannedBefore(a, b) ==
  \/ a[1] < b[1]
  \/ a[1] = b[1] /\ a[2] < b[2]
  \/ a[1] = b[1] /\ a[2] = b[2] /\ a[3] < b[3]

CandidateStep ==
  provider = "crossword" /\ pc = "words" /\ wordIdx <= Len(words)

\* C18: a candidate word is placed at the first anchor, in scan order, that
\* validates against the grid as it is; it is dropped, and the grid and the
\* placement list stay as they are, if and only if no anchor validates
C18_FirstFit ==
  [][CandidateStep =>
       LET word == words[wordIdx][1]
           valid == {a \in Anchors(word) : Validates(word, a)}
       IN  /\ pc' = "words"
           /\ wordIdx' = wordIdx + 1
           /\ valid = {} <=> placed' = placed
           /\ valid = {} => grid' = grid
           /\ valid # {} =>
                LET first == CHOOSE a \in valid :
                               \A b \in valid : b = a \/ ScannedBefore(a, b)
                    q == AnchorPlacement(word, first)
                IN  placed' = Append(placed,
                       [word |-> word, clue |-> words[wordIdx][2],
                        row |-> q.row, col |-> q.col,
                        direction |-> q.direction])]_vars

\* the candidate before the current one had anchors, none of them validated,
\* and it was dropped; an earlier candidate was placed
C18_Witness ==
  /\ provider = "crossword" /\ pc = "words" /\ wordIdx > 2
  /\ Len(placed) >= 2
  /\ LET word == words[wordIdx - 1][1]
     IN  /\ \A n \in 1..Len(placed) : placed[n].word # word
         /\ Anchors(word) # {}
         /\ \A a \in Anchors(word) : ~Validates(word, a)

\* the cell grid[nr][nc] that the check reads and the writer writes for the
\* k-th letter of the candidate q (a negative index counts from the end)
TargetCell(q, k) ==
  LET cell == LetterCell(q, k)
  IN  <<PyIdx(cell[1], grid_size), PyIdx(cell[2], grid_size)>>

\* the cells of the grid next to a letter cell of the candidate q, to the
\* side of its direction
SideCells(q) ==
  {n \in Cells(grid_size) :
     \E k \in 1..Len(q.word), s \in {-1, 1} :
       n = <<LetterCell(q, k)[1] + s * q.dc, LetterCell(q, k)[2] + s * q.dr>>}

\* the candidate of anchor a with its direction as a step
AnchorCandidate(word, a) ==
  LET q == AnchorPlacement(word, a)
  IN  [word |-> word, row |-> q.row, col |-> q.col,
       dr |-> Delta(q.direction)[1], dc |-> Delta(q.direction)[2]]

\* the three conditions on a candidate
EndInBounds(q) ==
  OnGrid(LetterCell(q, Len(q.word)))

TargetsAgree(q) ==
  \A k \in 1..Len(q.word) : grid[TargetCell(q, k)] \in {"", q.word[k]}

EndsFree(q) ==
  Free(LetterCell(q, 0)) /\ Free(LetterCell(q, Len(q.word) + 1))

WritesExactly(q) ==
  LET written == {LetterCell(q, k) : k \in 1..Len(q.word)}
  IN  /\ \A k \in 1..Len(q.word) :
           OnGrid(LetterCell(q, k)) /\ grid'[LetterCell(q, k)] = q.word[k]
      /\ \A cell \in Cells(grid_size) \ written : grid'[cell] = grid[cell]

\* the step adds one placement to the running generation
PlacesWord ==
  Len(Placements') = Len(Placements) + 1

\* C20: in both placers a step that fails to place the word leaves the grid
\* and the placement list as they are, and the loop moves on to the next word
\* for good; a step that places the word writes exactly the letter cells of
\* the accepted placement and leaves every other cell unchanged
C20_Frame ==
  [][(CandidateStep \/ pc = "attempt") =>
       /\ wordIdx' \in {wordIdx, wordIdx + 1}
       /\ IF PlacesWord
          THEN /\ IsPrefix(Placements, Placements')
               /\ provider = "wordsearch" =>
                    placed' = Append(placed, words[wordIdx])
               /\ WritesExactly(Placements'[Len(Placements')])
          ELSE /\ grid' = grid
               /\ placed' = placed
               /\ placements' = placements]_vars

\* every cell that holds a letter in grid g holds the same letter in grid h
Kept(g, h) ==
  \A cell \in DOMAIN g : g[cell] # "" => h[cell] = g[cell]

\* the grid after the crossword writer has written the first n letters of
\* the word of q from the origin of q
GridAfterLetters(q, n) ==
  PlaceLetters(grid, grid_size, SubSeq(q.word, 1, n), q.row, q.col,
               q.dr, q.dc, 1).grid

\* the word the crossword writer writes in the step, with its origin
CwWritten ==
  IF pc = "first"
  THEN [word |-> words[1][1], row |-> grid_size \div 2,
        col |-> (grid_size - Len(words[1][1])) \div 2, dr |-> 0, dc |-> 1]
  ELSE Placements'[Len(Placements')]

CwWrites ==
  \/ pc = "first" /\ words # << >>
  \/ CandidateStep /\ PlacesWord

\* C21: within one generation the placement list only grows by appending,
\* and a cell that holds a letter holds that letter from then on, after every
\* step and after every single letter the crossword writer writes
C21_Monotone ==
  [][(pc # "start" /\ ~Ended) =>
       /\ IsPrefix(Placements, Placements')
       /\ Kept(grid, grid')
       /\ CwWrites =>
            \A n \in 1..Len(CwWritten.word) :
              Kept(GridAfterLetters(CwWritten, n - 1),
                   GridAfterLetters(CwWritten, n))]_vars

\* a step of the word-search placer that writes a word
WsWrites ==
  provider = "wordsearch" /\ pc = "attempt" /\ PlacesWord

\* C22 as stated: every cell the word-search placer writes while placing a
\* word was empty immediately before the letters of that word were written
C22_Original ==
  [][WsWrites =>
       LET q == placements'[Len(placements')]
       IN  \A k \in 1..Len(q.word) : grid[LetterCell(q, k)] = ""]_vars

\* C22 as amended: every cell the word-search placer writes while placing a
\* word was empty or held the very letter written to it immediately before
\* the letters of that word were written, so no letter on the grid is ever
\* replaced by a different one
C22_Amended ==
  [][WsWrites =>
       LET q == placements'[Len(placements')]
       IN  /\ \A k \in 1..Len(q.word) :
                /\ grid[LetterCell(q, k)] \in {"", q.word[k]}
                /\ grid'[LetterCell(q, k)] = q.word[k]
           /\ Kept(grid, grid')]_vars

\* two placed words of the word search run over one cell
C22_Witness ==
  /\ provider = "wordsearch"
  /\ pc = "words"
  /\ Len(placements) >= 2
  /\ LET q == placements[Len(placements)]
     IN  \E i \in 1..(Len(placements) - 1) :
           \E k \in 1..Len(q.word), l \in 1..Len(placements[i].word) :
             LetterCell(q, k) = LetterCell(placements[i], l)

\* x holds every element of y exactly once
IsPermutation(x, y) ==
  /\ Len(x) = Len(y)
  /\ \A i \in 1..Len(y) : \E j \in 1..Len(x) : x[j] = y[i]
  /\ \A i, j \in 1..Len(x) : x[i] = x[j] => i = j

\* C23: the direction list is always a permutation of the 8 source vectors
\* and stays as it is while one word is attempted; the attempts go through
\* the directions in list order, 50 origins each; a word is dropped only
\* after 8 x 50 failed candidates; a word is written at the first candidate
\* that fits, in the direction the loop is at, and the loop is left
C23_Attempts ==
  [][provider = "wordsearch" =>
       /\ IsPermutation(DIRECTIONS', SourceDirections)
       /\ Len(DIRECTIONS') = 8
       /\ pc = "attempt" =>
            /\ DIRECTIONS' = DIRECTIONS
            /\ tries \in 0..49
            /\ attempts = (dirIdx - 1) * 50 + tries
            /\ IF PlacesWord
               THEN /\ dirIdx \in 1..8
                    /\ placements'[Len(placements')].dr = DIRECTIONS[dirIdx][1]
                    /\ placements'[Len(placements')].dc = DIRECTIONS[dirIdx][2]
                    /\ pc' = "words" /\ wordIdx' = wordIdx + 1
               ELSE IF pc' = "words"
                    THEN attempts = 8 * 50 /\ dirIdx = 9 /\ wordIdx' = wordIdx + 1
                    ELSE /\ attempts' = attempts + 1
                         /\ wordIdx' = wordIdx
                         /\ ~WsFits(grid, grid_size, words[wordIdx],
                                    RandBelow(rng, grid_size),
                                    RandBelow(RngNext(rng), grid_size),
                                    DIRECTIONS[dirIdx][1], DIRECTIONS[dirIdx][2])]_vars

\* in the second generation of a process a word has just been dropped after
\* 400 candidates and an earlier word of the same call is placed
C23_Witness ==
  /\ provider = "wordsearch"
  /\ run = 2
  /\ pc = "words"
  /\ attempts = 8 * 50
  /\ Len(placed) >= 1
  /\ placed[Len(placed)] # words[wordIdx - 1]
  /\ DIRECTIONS # SourceDirections

\* C24: every cell of every word the word-search placer has written is on
\* the grid, whatever the direction, and no word longer than grid_size is
\* placed or returned
C24_WsBounds ==
  provider = "wordsearch" =>
    /\ \A i \in 1..Len(placements) :
         /\ <<placements[i].dr, placements[i].dc>> \in
              {SourceDirections[d] : d \in 1..8}
         /\ Len(placements[i].word) <= grid_size
         /\ \A k \in 1..Len(placements[i].word) :
              OnGrid(LetterCell(placements[i], k))
    /\ \A i \in 1..Len(placed) : Len(placed[i]) <= grid_size

\* a returned word search with a word as long as the grid written upwards or
\* to the left, from one border of the grid to the other
C24_Witness ==
  /\ WsReturned
  /\ \E i \in 1..Len(placements) :
       LET q == placements[i]
           last == LetterCell(q, Len(q.word))
       IN  /\ q.dr = -1 \/ q.dc = -1
           /\ Len(q.word) = grid_size
           /\ last[1] = 0 \/ last[2] = 0

\* the starting cells of the returned placements
StartCells ==
  {<<placed[i].row, placed[i].col>> : i \in 1..Len(placed)}

\* a comes before b in (row, col) order
CellBefore(a, b) ==
  a[1] < b[1] \/ (a[1] = b[1] /\ a[2] < b[2])

\* C25: the numbered cells are the distinct starting cells of the
\* placements, their numbers are exactly 1..k for k distinct starting cells,
\* and a starting cell earlier in (row, col) order has the smaller number
C25_Numbering ==
  (provider = "crossword" /\ pc = "done") =>
    /\ DOMAIN number_map = StartCells
    /\ {number_map[c] : c \in StartCells} = 1..Cardinality(StartCells)
    /\ \A a, b \in StartCells :
         /\ CellBefore(a, b) => number_map[a] < number_map[b]
         /\ a # b => number_map[a] # number_map[b]

\* a numbered crossword of three or more starting cells in which the first
\* placement does not have number 1 and one origin lies above the grid
C25_Witness ==
  /\ provider = "crossword" /\ pc = "done"
  /\ Cardinality(StartCells) >= 3
  /\ number_map[<<placed[1].row, placed[1].col>>] > 1
  /\ \E i \in 1..Len(placed) : placed[i].row < 0

\* the clue entry of placement i
ClueEntry(i) ==
  <<number_map[<<placed[i].row, placed[i].col>>], placed[i].clue,
    Len(placed[i].word)>>

\* the entries of the clue list are in ascending order of number
Ascending(clues) ==
  \A a, b \in 1..Len(clues) : a < b => clues[a][1] < clues[b][1]

\* the number of entries of the clue list equal to e
Occurrences(clues, e) ==
  Cardinality({a \in 1..Len(clues) : clues[a] = e})

\* C26: every returned placement has exactly one clue entry, in the across
\* list if it is across and in the down list if it is down, made of the
\* number of its starting cell, its clue and the length of its word; no list
\* has any other entry, and each list is in ascending order of number
C26_ClueLists ==
  (provider = "crossword" /\ pc = "done") =>
    /\ \A i \in 1..Len(placed) :
         LET across == placed[i].direction = "across"
         IN  /\ Occurrences(across_clues, ClueEntry(i)) = (IF across THEN 1 ELSE 0)
             /\ Occurrences(down_clues, ClueEntry(i)) = (IF across THEN 0 ELSE 1)
    /\ Len(across_clues) + Len(down_clues) = Len(placed)
    /\ Ascending(across_clues)
    /\ Ascending(down_clues)

\* both lists have two or more entries
C26_Witness ==
  /\ provider = "crossword" /\ pc = "done"
  /\ Len(across_clues) >= 2
  /\ Len(down_clues) >= 2

\* the selected words are pairwise distinct
DistinctWords ==
  \A i, j \in 1..Len(words) : words[i][1] = words[j][1] => i = j

\* placements m and n have a cell in common, by their coordinates or by the
\* cells their letters were written to
Overlap(m, n) ==
  LET P == Placements
  IN  \E k \in 1..Len(P[m].word), l \in 1..Len(P[n].word) :
        \/ LetterCell(P[m], k) = LetterCell(P[n], l)
        \/ TargetCell(P[m], k) = TargetCell(P[n], l)

\* C27: in a crossword generated from pairwise distinct words none of which
\* is longer than the grid, two returned placements that have a cell in
\* common have different orientations
C27_NoParallelOverlap ==
  (CwReturned /\ FitsGrid /\ DistinctWords) =>
    \A m, n \in 1..Len(placed) :
      (m < n /\ placed[m].direction = placed[n].direction) => ~Overlap(m, n)

\* no direction occurs twice in x
NoRepeat(x) ==
  \A i, j \in 1..Len(x) : x[i] = x[j] => i = j

\* the directions fetched for the word being attempted are all different,
\* and once the loop over DIRECTIONS is exhausted they are the 8 vectors
EachDirectionOnce ==
  /\ NoRepeat(seen)
  /\ (pc = "attempt" /\ dirIdx > 8) =>
       {seen[i] : i \in 1..Len(seen)} = {SourceDirections[d] : d \in 1..8}

\* C28: when two word-search generations are interleaved, a step of the
\* running call leaves the grid of the other call as it is, and every word
\* attempt goes through each of the 8 direction vectors exactly once
C28_Interleaved ==
  [][other.id # 0 =>
       /\ other'.id = other.id => other'.loc.grid = other.loc.grid
       /\ EachDirectionOnce']_vars

-----------------------------------------------------------------------------
(* The sections of the page of the Goosepaper. *)

\* provider k of the configuration returned at least one story
Returned(k) ==
  story_providers[k].stories # << >>

Game(k) ==
  IsGameProvider(story_providers[k])

\* the slug of the section of provider k of the configuration
SlugAt(k) ==
  SectionSlug(story_providers[k], k - 1)

\* the providers that returned a story
Sectioned ==
  { k \in 1..Len(story_providers) : Returned(k) }

\* every occurrence of a in the list is in front of every occurrence of b
Before(list, a, b) ==
  \A p, q \in 1..Len(list) : (list[p] = a /\ list[q] = b) => p < q

\* the slug of every provider of the configuration
Slugs ==
  [k \in 1..Len(story_providers) |-> SlugAt(k)]

\* the list has the sections of a group in the configured order
KeepsOrder(list, group, slug) ==
  \A j, k \in group : j < k => Before(list, slug[j], slug[k])

\* the list has every section of a game behind every other section
GamesBehind(list, slug) ==
  \A j, k \in Sectioned : (~Game(j) /\ Game(k)) => Before(list, slug[j], slug[k])

\* the anchors of the page in document order
PageAnchors ==
  html.main_content \o html.sidebar_content \o html.games_content

\* the main content behind the banner block
MainColumn ==
  SubSeq(html.main_content, Len(html.banner_block) + 1, Len(html.main_content))

DistinctSlugs(slug) ==
  /\ \A j, k \in Sectioned : j # k => slug[j] # slug[k]
  /\ \A k \in Sectioned :
       Cardinality({ p \in 1..Len(html.nav_links) : html.nav_links[p] = slug[k] }) = 1
  /\ Len(html.nav_links) = Cardinality(Sectioned)

\* C29 (as stated): in the navigation links and in the page content the
\* section of every game provider comes after the sections of all non-game
\* providers, the game providers keep their configured order, the non-game
\* providers keep their configured order, and every provider that returned
\* a story has a slug of its own.
C29_Original ==
  html.called =>
    LET slug == Slugs
        games == { k \in Sectioned : Game(k) }
        others == { k \in Sectioned : ~Game(k) }
        page == PageAnchors
    IN  /\ GamesBehind(html.nav_links, slug)
        /\ GamesBehind(page, slug)
        /\ KeepsOrder(html.nav_links, games, slug)
        /\ KeepsOrder(page, games, slug)
        /\ KeepsOrder(html.nav_links, others, slug)
        /\ KeepsOrder(page, others, slug)
        /\ DistinctSlugs(slug)

\* C29 (amended): the navigation links have the non-game providers in their
\* configured order and behind them the game providers in their configured
\* order; in the page every game section is behind every non-game section
\* and the game sections keep their configured order; the non-game providers
\* keep their configured order inside the banner block, inside the main
\* column and inside the sidebar, the page having the banner block first,
\* the main column second and the sidebar third; every provider that
\* returned a story has a slug of its own.
C29_Amended ==
  html.called =>
    LET slug == Slugs
        games == { k \in Sectioned : Game(k) }
        others == { k \in Sectioned : ~Game(k) }
        page == PageAnchors
        column == MainColumn
    IN  /\ GamesBehind(html.nav_links, slug)
        /\ GamesBehind(page, slug)
        /\ KeepsOrder(html.nav_links, games, slug)
        /\ KeepsOrder(page, games, slug)
        /\ KeepsOrder(html.nav_links, others, slug)
        /\ KeepsOrder(html.banner_block, others, slug)
        /\ KeepsOrder(column, others, slug)
        /\ KeepsOrder(html.sidebar_content, others, slug)
        /\ html.main_content = html.banner_block \o column
        /\ DistinctSlugs(slug)

\* a game configured in front of two providers of one subreddit, the
\* headlines of the first in the sidebar, the posts of the second in the
\* main column
C29_Witness ==
  /\ html.called
  /\ Len(story_providers) = 3
  /\ Game(1) /\ ~Game(2) /\ ~Game(3)
  /\ Sectioned = {1, 2, 3}
  /\ ProviderSectionName(story_providers[2]) = ProviderSectionName(story_providers[3])
  /\ story_providers[2].cls = RedditHeadlineStoryProvider
  /\ story_providers[3].cls = RedditFullStoryProvider
  /\ SlugAt(2) \in { html.sidebar_content[p] : p \in 1..Len(html.sidebar_content) }
  /\ SlugAt(3) \in { MainColumn[p] : p \in 1..Len(MainColumn) }
  /\ html.nav_links = <<SlugAt(2), SlugAt(3), SlugAt(1)>>

-----------------------------------------------------------------------------
(* The stories of the Goosepaper. *)

\* every story of every provider, in provider order
RECURSIVE AllStoriesFrom(_)
AllStoriesFrom(k) ==
  IF k > Len(story_providers) THEN << >>
  ELSE story_providers[k].stories \o AllStoriesFrom(k + 1)

AllStories ==
  AllStoriesFrom(1)

SameHeadlineAndDate(a, b) ==
  a.headline = b.headline /\ a.date = b.date

\* story k of the list is the first of the list with its headline and date
FirstOfItsKind(list, k) ==
  \A j \in 1..(k - 1) : ~SameHeadlineAndDate(list[j], list[k])

\* the stories that are the first of all stories with their headline and
\* date, in the order of all stories, from story k on
RECURSIVE FirstsFrom(_)
FirstsFrom(k) ==
  IF k > Len(AllStories) THEN << >>
  ELSE (IF FirstOfItsKind(AllStories, k) THEN <<AllStories[k]>> ELSE << >>)
       \o FirstsFrom(k + 1)

\* C30: get_stories(deduplicate=True) returns no two stories with the same
\* headline and the same date; it returns, in their order, exactly the
\* stories that are the first in provider order with their headline and
\* date; get_stories(deduplicate=False) returns every story of every
\* provider in provider order.
C30_Deduplicate ==
  stories.called =>
    IF stories.deduplicate
    THEN /\ \A j, k \in 1..Len(stories.list) :
              j # k => ~SameHeadlineAndDate(stories.list[j], stories.list[k])
         /\ stories.list = FirstsFrom(1)
    ELSE stories.list = AllStories

\* deduplicate=True with a later provider repeating, under another body, a
\* headline and date of an earlier provider, a story of another date
\* between the two, and a story kept behind the one left out
C30_Witness ==
  /\ stories.called
  /\ stories.deduplicate
  /\ \E i, j, k, l \in 1..Len(AllStories) :
       /\ i < j /\ j < k /\ k < l
       /\ SameHeadlineAndDate(AllStories[i], AllStories[k])
       /\ AllStories[i].body_html # AllStories[k].body_html
       /\ AllStories[i].headline = AllStories[j].headline
       /\ AllStories[i].date # AllStories[j].date
       /\ FirstOfItsKind(AllStories, j)
       /\ FirstOfItsKind(AllStories, l)
       /\ Len(stories.list) < Len(AllStories)
       /\ stories.list[1] = AllStories[i]

=============================================================================
